---- MODULE Spec2Model ----
(***************************************************************************)
(* A model of the PublicInput end-to-end test harness: the configuration   *)
(* singleton, the secret manager with its password cache, the login        *)
(* helpers with the retry loop around them, and the page objects'          *)
(* visibility checks.                                                      *)
(*                                                                         *)
(* Strings that the code converts or uses as keys (emails, secret keys,    *)
(* environment variable names and values) are sequences of one-character   *)
(* strings, so that replace/toUpperCase are computed character by          *)
(* character.  Only ASCII characters occur.  Messages, user types and      *)
(* program counters are plain strings.                                     *)
(***************************************************************************)
EXTENDS Integers, Sequences, FiniteSets, TLC

VARIABLES
  env,          \* process.env: a function from the names that are set to their values
  envFile,      \* the variables of the .env.<ENV> file dotenv reads
  secretKeys,   \* DEFAULT_APP_SETTINGS.userAccountSecretMap.secretKeys (shared by settings)
  settings,     \* ConfigurationManager.settings, on the other objects of DEFAULT_APP_SETTINGS
  secretCache,  \* SecretManager.secretCache
  cmInstance,   \* ConfigurationManager.instance (0: undefined, else the object's identity)
  cmConstructed,\* how many ConfigurationManager objects were constructed
  cmLoads,      \* how many times loadConfiguration ran
  cmReloads,    \* how many times reload() was called
  smInstance,   \* SecretManager.instance (0: undefined)
  smConstructed,\* how many SecretManager objects were constructed
  got,          \* the instances the getInstance() calls returned, and the calls, per class
  last,         \* the last operation: [op, email, ret, err]
  memo,         \* history: email -> the password last returned since the last invalidation
  cleared,      \* history: the emails not retrieved since the last clearCache()
  ops,          \* how many operations ran (bounded by MaxOps)
  envConfig,    \* EnvironmentConfig.config: the copy of process.env taken at its load
  page,         \* the browser page: [url, errorShown ('#email-input-error' is visible)]
  pc,           \* where the running call is: "idle", an await, or "done"
  top,          \* the call a test made: [op, userType, customerId, maxAttempts, arg]
  routine,      \* the login routine that runs: [name, customerId]
  credentials,  \* its credentials: [email, password]
  currentUrl,   \* its currentUrl (<< >> before page.url() is read)
  hasError,     \* verifyLoginSuccess's hasError
  loginAttempts,   \* retryLogin's loginAttempts
  loginSuccessful, \* retryLogin's loginSuccessful
  attempts,     \* history: the login attempts retryLogin made: "running", "ok", "failed"
  error,        \* the error a helper threw (in retryLogin: the catch block's error)
  logins,       \* history: the login routines entered: [name, customerId]
  trace,        \* history: the calls the current login made, in order
  waits,        \* history: the waits of retryLogin before a retry, in ms
  res,          \* the finished call's outcome: [err, ret, wait]
  counts,       \* the texts the page shows: [total, potential], the two counts of a segment
  totalCount,   \* verifyTotalCountEqualsPotentialCount's totalCount
  potentialCount,  \* and its potentialCount
  loopIndex,    \* clickElement's i
  tab,          \* verifyAllProjectTabsLoading's tab, as its position in tabs (0: none)
  blobServiceClient,  \* AzureBlobStorageService.blobServiceClient: "null" or "client"
                      \* ("undefined" while no service is constructed)
  requests,     \* history: the requests sent to the storage account
  uploadedFiles,  \* uploadTestArtifacts's uploadedFiles: paths, each a sequence of names
  blobs,        \* the blobs of the run's container: blob name -> the path of the file in it
  addresses,    \* the addresses the application holds for the super admin's profile
  profileTests  \* the profile tests that run, per worker: [test, step, view, initial,
                \* notified, failed]

secretVars == <<env, envFile, secretKeys, settings, secretCache, cmInstance, cmConstructed,
                cmLoads, cmReloads, smInstance, smConstructed, got, last, memo,
                cleared, ops>>

loginVars == <<envConfig, page, pc, top, routine, credentials, currentUrl, hasError,
               loginAttempts, loginSuccessful, attempts, error, logins, trace, waits,
               res>>

pageVars == <<counts, totalCount, potentialCount, loopIndex, tab>>

storageVars == <<blobServiceClient, requests, uploadedFiles, blobs>>

profileVars == <<addresses, profileTests>>

vars == <<secretVars, loginVars, pageVars, storageVars, profileVars>>

(***************************************************************************)
(* Bounds                                                                  *)
(***************************************************************************)
MaxOps == 3

(***************************************************************************)
(* Character strings                                                       *)
(***************************************************************************)
LowerCase == <<"a","b","c","d","e","f","g","h","i","j","k","l","m",
               "n","o","p","q","r","s","t","u","v","w","x","y","z">>

UpperCase == <<"A","B","C","D","E","F","G","H","I","J","K","L","M",
               "N","O","P","Q","R","S","T","U","V","W","X","Y","Z">>

DigitChars == {"0","1","2","3","4","5","6","7","8","9"}

Range(f) == {f[i] : i \in DOMAIN f}

\* the character class [a-zA-Z0-9]
AlnumChars == Range(LowerCase) \cup Range(UpperCase) \cup DigitChars

\* String.prototype.toUpperCase on one ASCII character
UpperOfChar(c) ==
  IF \E i \in DOMAIN LowerCase : LowerCase[i] = c
  THEN UpperCase[CHOOSE i \in DOMAIN LowerCase : LowerCase[i] = c]
  ELSE c

ToUpperCase(s) == [i \in 1..Len(s) |-> UpperOfChar(s[i])]

\* s.replace(/[^a-zA-Z0-9]/g, '_')
ReplaceNonAlnum(s) == [i \in 1..Len(s) |-> IF s[i] \in AlnumChars THEN s[i] ELSE "_"]

\* str.startsWith(prefix)
StartsWith(s, prefix) ==
  /\ Len(prefix) <= Len(s)
  /\ SubSeq(s, 1, Len(prefix)) = prefix

\* key.replace('USER_SECRET_', '') for a key that starts with the prefix
DropPrefix(s, prefix) == SubSeq(s, Len(prefix) + 1, Len(s))

PasswordPrefix == <<"P","A","S","S","W","O","R","D","_">>

UserSecretPrefix == <<"U","S","E","R","_","S","E","C","R","E","T","_">>

(***************************************************************************)
(* Emails and secret keys of DEFAULT_APP_SETTINGS                          *)
(***************************************************************************)
SuperAdminEmail == <<"s","u","p","e","r","a","d","m","i","n","t","e","s","t","@","p","u","b","l","i","c","i","n","p","u","t",".","c","o","m">>
AdminEmail == <<"a","d","m","i","n","_","t","e","s","t","@","p","u","b","l","i","c","i","n","p","u","t",".","o","r","g">>
DataViewerEmail == <<"d","a","t","a","v","i","e","w","e","r","_","t","e","s","t","@","p","u","b","l","i","c","i","n","p","u","t",".","o","r","g">>
EditorEmail == <<"e","d","i","t","o","r","_","t","e","s","t","@","p","u","b","l","i","c","i","n","p","u","t",".","o","r","g">>
NoneEmail == <<"n","o","n","e","_","t","e","s","t","@","p","u","b","l","i","c","i","n","p","u","t",".","o","r","g">>
PublisherEmail == <<"p","u","b","l","i","s","h","e","r","_","t","e","s","t","@","p","u","b","l","i","c","i","n","p","u","t",".","o","r","g">>

TestAdminPassword == <<"T","e","s","t","A","d","m","i","n","P","a","s","s","w","o","r","d">>
TestDataViewerPassword == <<"T","e","s","t","D","a","t","a","V","i","e","w","e","r","P","a","s","s","w","o","r","d">>
TestEditorPassword == <<"T","e","s","t","E","d","i","t","o","r","P","a","s","s","w","o","r","d">>
TestNonePassword == <<"T","e","s","t","N","o","n","e","P","a","s","s","w","o","r","d">>
TestPublisherPassword == <<"T","e","s","t","P","u","b","l","i","s","h","e","r","P","a","s","s","w","o","r","d">>
TestSuperAdminPassword == <<"T","e","s","t","S","u","p","e","r","A","d","m","i","n","P","a","s","s","w","o","r","d">>

\* a default map with the super admin's email misspelt (the .org domain)
DefaultSecretKeysTypo ==
  (AdminEmail :> TestAdminPassword) @@
  (DataViewerEmail :> TestDataViewerPassword) @@
  (EditorEmail :> TestEditorPassword) @@
  (NoneEmail :> TestNonePassword) @@
  (PublisherEmail :> TestPublisherPassword) @@
  (SubSeq(SuperAdminEmail, 1, 27) \o <<"o","r","g">> :> TestSuperAdminPassword)

\* DEFAULT_APP_SETTINGS.userAccountSecretMap.secretKeys
DefaultSecretKeys ==
  (AdminEmail :> TestAdminPassword) @@
  (DataViewerEmail :> TestDataViewerPassword) @@
  (EditorEmail :> TestEditorPassword) @@
  (NoneEmail :> TestNonePassword) @@
  (PublisherEmail :> TestPublisherPassword) @@
  (SuperAdminEmail :> TestSuperAdminPassword)

(***************************************************************************)
(* The inputs the operations are tried on                                  *)
(***************************************************************************)
\* an account that is not among the defaults
CustomEmail == <<"q","a",".","1","@","x",".","i","o">>

CustomKey == <<"Q","a","K","e","y">>

OpEmails == {SuperAdminEmail, CustomEmail}

OpKeys == {<< >>, CustomKey}

\* PASSWORD_<EMAIL>: `PASSWORD_${email.replace(/[^a-zA-Z0-9]/g, '_').toUpperCase()}`
EmailEnvKey(email) == PasswordPrefix \o ToUpperCase(ReplaceNonAlnum(email))

\* USER_SECRET_<x>, the variables loadUserAccountSecrets reads
UserSecretVar == UserSecretPrefix \o CustomEmail

EnvNames == {TestSuperAdminPassword, EmailEnvKey(SuperAdminEmail), CustomKey, UserSecretVar}

EnvValues == {<< >>, <<"p","w","1">>, <<"p","w","2">>}

(***************************************************************************)
(* Objects as finite maps                                                  *)
(***************************************************************************)
EmptyMap == [k \in {} |-> << >>]

\* obj[k] = v
Put(obj, k, v) == [x \in DOMAIN obj \cup {k} |-> IF x = k THEN v ELSE obj[x]]

\* delete obj[k]
Del(obj, k) == [x \in DOMAIN obj \ {k} |-> obj[x]]

\* the truthiness of obj[k]: defined and not the empty string
Truthy(obj, k) == k \in DOMAIN obj /\ obj[k] # << >>

NoError == "none"

NoSecretKeyError == "No secret key found for email"

(***************************************************************************)
(* ConfigurationManager                                                    *)
(***************************************************************************)
\* dotenv's config({path}): the file's variables, never over a variable already set
DotenvConfig(environ, file) ==
  [n \in DOMAIN environ \cup DOMAIN file |->
     IF n \in DOMAIN environ THEN environ[n] ELSE file[n]]

\* loadUserAccountSecrets: secretKeys[key.replace('USER_SECRET_', '')] = process.env[key]
\* for every key that starts with USER_SECRET_ and has a non-empty value
LoadUserAccountSecrets(keys, environ) ==
  LET hits == {n \in DOMAIN environ :
                 StartsWith(n, UserSecretPrefix) /\ environ[n] # << >>}
  IN  [e \in DOMAIN keys \cup {DropPrefix(n, UserSecretPrefix) : n \in hits} |->
         IF \E n \in hits : DropPrefix(n, UserSecretPrefix) = e
         THEN environ[CHOOSE n \in hits : DropPrefix(n, UserSecretPrefix) = e]
         ELSE keys[e]]

\* a boolean of the program, as text
BoolString(b) == IF b THEN "true" ELSE "false"

\* a value that is absent: a parameter the caller left out, a variable that is
\* not set, a property an object lacks
Undefined == <<"undefined">>

\* process.env.BASE_URL, which ConfigurationManager and EnvironmentConfig both read
BaseUrlVar == <<"B","A","S","E","_","U","R","L">>

DefaultBaseUrl == <<"h","t","t","p","s",":","/","/","p","u","b","l","i","c","i","n","p","u","t",".","c","o","m">>

\* the other variables buildSettingsFromEnvironment reads
ConfigVar ==
  [BROWSER |-> <<"B","R","O","W","S","E","R">>, HEADLESS |-> <<"H","E","A","D","L","E","S","S">>, TIMEOUT |-> <<"T","I","M","E","O","U","T">>,
   SCREENSHOT_BEHAVIOR |-> <<"S","C","R","E","E","N","S","H","O","T","_","B","E","H","A","V","I","O","R">>,
   SCREENSHOT_CONTAINER |-> <<"S","C","R","E","E","N","S","H","O","T","_","C","O","N","T","A","I","N","E","R">>,
   RETRIES |-> <<"R","E","T","R","I","E","S">>, WORKERS |-> <<"W","O","R","K","E","R","S">>,
   AZURE_STORAGE_CONNECTION_STRING |-> <<"A","Z","U","R","E","_","S","T","O","R","A","G","E","_","C","O","N","N","E","C","T","I","O","N","_","S","T","R","I","N","G">>]

\* a number of the program: an integer or NaN
Num(n) == [nan |-> FALSE, n |-> n]

NaN == [nan |-> TRUE, n |-> 0]

\* DEFAULT_APP_SETTINGS, apart from its secretKeys
DefaultAppSettings ==
  [cityzenSettings |-> [baseUrl |-> DefaultBaseUrl],
   browserSettings |->
     [browser |-> <<"C","h","r","o","m","i","u","m">>, headless |-> TRUE, timeout |-> Num(60000),
      viewport |-> [width |-> Num(1920), height |-> Num(1080)]],
   testSettings |->
     [screenshotBehavior |-> <<"O","n","l","y","O","n","F","a","i","l","u","r","e","s">>,
      screenshotContainer |-> <<"p","u","b","l","i","c","i","n","p","u","t","-","a","c","c","e","p","t","a","n","c","e","-","t","e","s","t","s">>,
      retries |-> Num(2), parallel |-> TRUE, workers |-> Num(4)],
   azureBlobStorageConfiguration |->
     [shouldGenerateSasUri |-> TRUE, sasExpiryHours |-> Num(336),
      connectionString |-> << >>]]

\* the number a sequence of decimal digits writes
RECURSIVE DecimalValue(_)
DecimalValue(digits) ==
  IF digits = << >> THEN 0
  ELSE 10 * DecimalValue(SubSeq(digits, 1, Len(digits) - 1))
       + (CHOOSE d \in 0..9 :
            <<"0","1","2","3","4","5","6","7","8","9">>[d + 1] = digits[Len(digits)])

\* parseInt(s, 10): leading blanks are skipped, a sign is read, then the longest
\* run of decimal digits; NaN when there is no digit
ParseInt(s) ==
  LET blanks == CHOOSE k \in 0..Len(s) :
                  /\ \A j \in 1..k : s[j] = " "
                  /\ k < Len(s) => s[k + 1] # " "
      t == SubSeq(s, blanks + 1, Len(s))
      signed == t # << >> /\ t[1] \in {"+", "-"}
      u == IF signed THEN Tail(t) ELSE t
      n == CHOOSE k \in 0..Len(u) :
             /\ \A j \in 1..k : u[j] \in DigitChars
             /\ k < Len(u) => u[k + 1] \notin DigitChars
  IN  IF n = 0 THEN NaN
      ELSE Num((IF signed /\ t[1] = "-" THEN -1 ELSE 1) * DecimalValue(SubSeq(u, 1, n)))

\* the test of HEADLESS by its truthiness, as the other variables are tested
HeadlessSettingIfTruthy(environ, current) ==
  IF Truthy(environ, ConfigVar.HEADLESS)
  THEN environ[ConfigVar.HEADLESS] = <<"t","r","u","e">>
  ELSE current

\* if (process.env.HEADLESS !== undefined) headless = process.env.HEADLESS === 'true'
HeadlessSetting(environ, current) ==
  IF ConfigVar.HEADLESS \in DOMAIN environ
  THEN environ[ConfigVar.HEADLESS] = <<"t","r","u","e">>
  ELSE current

\* buildSettingsFromEnvironment: s holds the objects of DEFAULT_APP_SETTINGS, which
\* { ...DEFAULT_APP_SETTINGS } shares with the settings and the overrides are
\* written into; only azureBlobStorageConfiguration is replaced by a new object
BuildSettingsFromEnvironment(s, environ) ==
  LET Text(name, current) == IF Truthy(environ, name) THEN environ[name] ELSE current
      Number(name, current) ==
        IF Truthy(environ, name) THEN ParseInt(environ[name]) ELSE current
  IN  [s EXCEPT
         !.cityzenSettings.baseUrl = Text(BaseUrlVar, @),
         !.browserSettings.browser = Text(ConfigVar.BROWSER, @),
         !.browserSettings.headless = HeadlessSetting(environ, @),
         !.browserSettings.timeout = Number(ConfigVar.TIMEOUT, @),
         !.testSettings.screenshotBehavior = Text(ConfigVar.SCREENSHOT_BEHAVIOR, @),
         !.testSettings.screenshotContainer = Text(ConfigVar.SCREENSHOT_CONTAINER, @),
         !.testSettings.retries = Number(ConfigVar.RETRIES, @),
         !.testSettings.workers = Number(ConfigVar.WORKERS, @),
         !.azureBlobStorageConfiguration =
            [DefaultAppSettings.azureBlobStorageConfiguration EXCEPT
               !.connectionString = Text(ConfigVar.AZURE_STORAGE_CONNECTION_STRING, @)]]

\* getSetting(key), keys being key.split('.'): value = value?.[k] for each k, until
\* the value is undefined
RECURSIVE GetSetting(_, _)
GetSetting(value, keys) ==
  IF keys = << >> THEN value
  ELSE IF Head(keys) \in DOMAIN value THEN GetSetting(value[Head(keys)], Tail(keys))
  ELSE Undefined

\* getBaseUrl()
GetBaseUrl(s) == s.cityzenSettings.baseUrl

\* loadConfiguration: the .env file is read into process.env, and the settings are
\* built on the objects of DEFAULT_APP_SETTINGS ({...DEFAULT_APP_SETTINGS} copies
\* the references), so the secret keys are written into the shared map
LoadConfiguration ==
  /\ env' = DotenvConfig(env, envFile)
  /\ secretKeys' = LoadUserAccountSecrets(secretKeys, DotenvConfig(env, envFile))
  /\ settings' = BuildSettingsFromEnvironment(settings, DotenvConfig(env, envFile))
  /\ cmLoads' = cmLoads + 1

\* getInstance without the test of the static field
CMGetInstanceAlwaysNew ==
  /\ ops < MaxOps
  /\ cmInstance' = cmConstructed + 1
  /\ cmConstructed' = cmConstructed + 1
  /\ LoadConfiguration
  /\ got' = [got EXCEPT !.cm = @ \cup {cmConstructed + 1}, !.cmCalls = @ + 1]
  /\ ops' = ops + 1
  /\ last' = [op |-> "ConfigurationManager.getInstance", email |-> << >>, ret |-> << >>, err |-> NoError]
  /\ UNCHANGED <<envFile, secretCache, cmReloads, smInstance, smConstructed,
                 memo, cleared>>
  /\ UNCHANGED <<loginVars, pageVars, storageVars, profileVars>>

\* ConfigurationManager.getInstance(); the first call is the module's own
\* (export const configurationManager), made when the module is loaded
CMGetInstance ==
  /\ ops < MaxOps
  /\ IF cmInstance = 0
     THEN /\ cmInstance' = cmConstructed + 1
          /\ cmConstructed' = cmConstructed + 1
          /\ LoadConfiguration
          /\ got' = [got EXCEPT !.cm = @ \cup {cmConstructed + 1}, !.cmCalls = @ + 1]
          /\ ops' = ops
     ELSE /\ got' = [got EXCEPT !.cm = @ \cup {cmInstance}, !.cmCalls = @ + 1]
          /\ ops' = ops + 1
          /\ UNCHANGED <<env, secretKeys, settings, cmInstance, cmConstructed, cmLoads>>
  /\ last' = [op |-> "ConfigurationManager.getInstance", email |-> << >>, ret |-> << >>, err |-> NoError]
  /\ UNCHANGED <<envFile, secretCache, cmReloads, smInstance, smConstructed,
                 memo, cleared>>
  /\ UNCHANGED <<loginVars, pageVars, storageVars, profileVars>>

\* configurationManager.reload()
Reload ==
  /\ cmInstance # 0
  /\ ops < MaxOps
  /\ LoadConfiguration
  /\ cmReloads' = cmReloads + 1
  /\ ops' = ops + 1
  /\ last' = [op |-> "reload", email |-> << >>, ret |-> << >>, err |-> NoError]
  /\ UNCHANGED <<envFile, secretCache, cmInstance, cmConstructed, smInstance,
                 smConstructed, got, memo, cleared>>
  /\ UNCHANGED <<loginVars, pageVars, storageVars, profileVars>>

(***************************************************************************)
(* SecretManager                                                           *)
(***************************************************************************)
\* SecretManager.getInstance(); the module imports ConfigurationManager first
SMGetInstance ==
  /\ cmInstance # 0
  /\ ops < MaxOps
  /\ IF smInstance = 0
     THEN /\ smInstance' = smConstructed + 1
          /\ smConstructed' = smConstructed + 1
          /\ got' = [got EXCEPT !.sm = @ \cup {smConstructed + 1}, !.smCalls = @ + 1]
          /\ ops' = ops
     ELSE /\ got' = [got EXCEPT !.sm = @ \cup {smInstance}, !.smCalls = @ + 1]
          /\ ops' = ops + 1
          /\ UNCHANGED <<smInstance, smConstructed>>
  /\ last' = [op |-> "SecretManager.getInstance", email |-> << >>, ret |-> << >>, err |-> NoError]
  /\ UNCHANGED <<env, envFile, secretKeys, secretCache, cmInstance, cmConstructed,
                 cmLoads, cmReloads, memo, cleared>>
  /\ UNCHANGED <<settings, loginVars, pageVars, storageVars, profileVars>>

\* both modules are loaded: the exported singletons exist
Ready == cmInstance # 0 /\ smInstance # 0

\* lines 83-90 with the second test before the first: PASSWORD_<EMAIL> wins
ResolvePasswordEmailFirst(email, secretKey, environ) ==
  IF Truthy(environ, EmailEnvKey(email)) THEN environ[EmailEnvKey(email)]
  ELSE IF Truthy(environ, secretKey) THEN environ[secretKey]
  ELSE secretKey

\* the password of an email whose secret key is secretKey (retrievePasswordSync)
ResolvePassword(email, secretKey, environ) ==
  IF Truthy(environ, secretKey) THEN environ[secretKey]
  ELSE IF Truthy(environ, EmailEnvKey(email)) THEN environ[EmailEnvKey(email)]
  ELSE secretKey

\* retrievePasswordSync without the cache lookup
RetrievePasswordSyncNoLookup(email, cache, keys, environ) ==
  IF ~Truthy(keys, email)
  THEN [ret |-> << >>, err |-> NoSecretKeyError, cache |-> cache]
  ELSE [ret |-> ResolvePassword(email, keys[email], environ), err |-> NoError,
        cache |-> Put(cache, email, ResolvePassword(email, keys[email], environ))]

\* retrievePasswordSync without the test of the secret key: a missing key is
\* resolved like any other (the empty string stands for undefined)
RetrievePasswordSyncNoKeyTest(email, cache, keys, environ) ==
  IF email \in DOMAIN cache
  THEN [ret |-> cache[email], err |-> NoError, cache |-> cache]
  ELSE LET key == IF email \in DOMAIN keys THEN keys[email] ELSE << >>
       IN  [ret |-> ResolvePassword(email, key, environ), err |-> NoError,
            cache |-> Put(cache, email, ResolvePassword(email, key, environ))]

\* retrievePasswordSync(email): what it returns or throws, and the cache it leaves
RetrievePasswordSyncResult(email, cache, keys, environ) ==
  IF email \in DOMAIN cache
  THEN [ret |-> cache[email], err |-> NoError, cache |-> cache]
  ELSE IF ~Truthy(keys, email)
  THEN [ret |-> << >>, err |-> NoSecretKeyError, cache |-> cache]
  ELSE [ret |-> ResolvePassword(email, keys[email], environ), err |-> NoError,
        cache |-> Put(cache, email, ResolvePassword(email, keys[email], environ))]

\* retrievePassword without line 56, this.secretCache.set(email, password)
RetrievePasswordNoCaching(email, cache, keys, environ) ==
  IF email \in DOMAIN cache
  THEN [ret |-> cache[email], err |-> NoError, cache |-> cache]
  ELSE IF ~Truthy(keys, email)
  THEN [ret |-> << >>, err |-> NoSecretKeyError, cache |-> cache]
  ELSE [ret |-> ResolvePassword(email, keys[email], environ), err |-> NoError,
        cache |-> cache]

\* retrievePassword(email), the asynchronous version
RetrievePasswordResult(email, cache, keys, environ) ==
  IF email \in DOMAIN cache
  THEN [ret |-> cache[email], err |-> NoError, cache |-> cache]
  ELSE IF ~Truthy(keys, email)
  THEN [ret |-> << >>, err |-> NoSecretKeyError, cache |-> cache]
  ELSE LET password ==
             IF Truthy(environ, keys[email]) THEN environ[keys[email]]
             ELSE IF Truthy(environ, EmailEnvKey(email))
                  THEN environ[EmailEnvKey(email)]
                  ELSE keys[email]
       IN  [ret |-> password, err |-> NoError, cache |-> Put(cache, email, password)]

\* the history of one retrieval
Retrieved(op, email, r) ==
  /\ secretCache' = r.cache
  /\ last' = [op |-> op, email |-> email, ret |-> r.ret, err |-> r.err]
  /\ memo' = IF r.err = NoError THEN Put(memo, email, r.ret) ELSE memo
  /\ cleared' = cleared \ {email}
  /\ ops' = ops + 1
  /\ UNCHANGED <<env, envFile, secretKeys, cmInstance, cmConstructed, cmLoads,
                 cmReloads, smInstance, smConstructed, got>>
  /\ UNCHANGED <<settings, loginVars, pageVars, storageVars, profileVars>>

RetrievePasswordSync(email) ==
  /\ Ready
  /\ ops < MaxOps
  /\ Retrieved("retrievePasswordSync", email,
               RetrievePasswordSyncResult(email, secretCache, secretKeys, env))

RetrievePassword(email) ==
  /\ Ready
  /\ ops < MaxOps
  /\ Retrieved("retrievePassword", email,
               RetrievePasswordResult(email, secretCache, secretKeys, env))

\* clearCache()
ClearCache ==
  /\ Ready
  /\ ops < MaxOps
  /\ secretCache' = EmptyMap
  /\ last' = [op |-> "clearCache", email |-> << >>, ret |-> << >>, err |-> NoError]
  /\ memo' = EmptyMap
  /\ cleared' = OpEmails
  /\ ops' = ops + 1
  /\ UNCHANGED <<env, envFile, secretKeys, cmInstance, cmConstructed, cmLoads,
                 cmReloads, smInstance, smConstructed, got>>
  /\ UNCHANGED <<settings, loginVars, pageVars, storageVars, profileVars>>

\* addAccount(email, secretKey); last.ret keeps the secret key the call replaced
AddAccount(email, secretKey) ==
  /\ Ready
  /\ ops < MaxOps
  /\ secretKeys' = Put(secretKeys, email, secretKey)
  /\ last' = [op |-> "addAccount", email |-> email,
              ret |-> IF email \in DOMAIN secretKeys THEN secretKeys[email] ELSE << >>,
              err |-> NoError]
  /\ memo' = Del(memo, email)
  /\ ops' = ops + 1
  /\ UNCHANGED <<env, envFile, secretCache, cmInstance, cmConstructed, cmLoads,
                 cmReloads, smInstance, smConstructed, got, cleared>>
  /\ UNCHANGED <<settings, loginVars, pageVars, storageVars, profileVars>>

\* hasAccount(email): email in settings.userAccountSecretMap.secretKeys
HasAccount(email, keys) == email \in DOMAIN keys

\* getAccountInfo's answer for an email without a secret key
Null == [email |-> << >>, secretKey |-> << >>, hasPassword |-> "null"]

\* retrievePasswordSync takes the password from the environment: one of the tests
\* of lines 83 and 85, process.env[...] truthy, passes
PasswordFromEnvironment(email, secretKey, environ) ==
  Truthy(environ, secretKey) \/ Truthy(environ, EmailEnvKey(email))

\* process.env[secretKey] !== undefined || process.env[`PASSWORD_...`] !== undefined
HasPassword(email, secretKey, environ) ==
  secretKey \in DOMAIN environ \/ EmailEnvKey(email) \in DOMAIN environ

\* getAccountInfo(email)
GetAccountInfo(email, keys, environ) ==
  IF ~Truthy(keys, email) THEN Null
  ELSE [email |-> email, secretKey |-> keys[email],
        hasPassword |-> BoolString(HasPassword(email, keys[email], environ))]

\* removeAccount without line 135, this.secretCache.delete(email)
RemoveAccountKeepsCache(email) ==
  /\ Ready
  /\ ops < MaxOps
  /\ secretKeys' = Del(secretKeys, email)
  /\ last' = [op |-> "removeAccount", email |-> email,
              ret |-> IF email \in DOMAIN secretCache THEN secretCache[email] ELSE << >>,
              err |-> NoError]
  /\ memo' = Del(memo, email)
  /\ ops' = ops + 1
  /\ UNCHANGED <<env, envFile, secretCache, cmInstance, cmConstructed, cmLoads,
                 cmReloads, smInstance, smConstructed, got, cleared>>
  /\ UNCHANGED <<settings, loginVars, pageVars, storageVars, profileVars>>

\* removeAccount(email); last.ret keeps the cached password the call dropped
RemoveAccount(email) ==
  /\ Ready
  /\ ops < MaxOps
  /\ secretKeys' = Del(secretKeys, email)
  /\ secretCache' = Del(secretCache, email)
  /\ last' = [op |-> "removeAccount", email |-> email,
              ret |-> IF email \in DOMAIN secretCache THEN secretCache[email] ELSE << >>,
              err |-> NoError]
  /\ memo' = Del(memo, email)
  /\ ops' = ops + 1
  /\ UNCHANGED <<env, envFile, cmInstance, cmConstructed, cmLoads, cmReloads,
                 smInstance, smConstructed, got, cleared>>
  /\ UNCHANGED <<settings, loginVars, pageVars, storageVars, profileVars>>

\* the test process sets, or deletes, a variable of process.env
SetEnv(name, value) ==
  /\ Ready
  /\ ops < MaxOps
  /\ env' = Put(env, name, value)
  /\ ops' = ops + 1
  /\ last' = [op |-> "setEnv", email |-> << >>, ret |-> << >>, err |-> NoError]
  /\ UNCHANGED <<envFile, secretKeys, secretCache, cmInstance, cmConstructed,
                 cmLoads, cmReloads, smInstance, smConstructed, got, memo, cleared>>
  /\ UNCHANGED <<settings, loginVars, pageVars, storageVars, profileVars>>

DeleteEnv(name) ==
  /\ Ready
  /\ ops < MaxOps
  /\ name \in DOMAIN env
  /\ env' = Del(env, name)
  /\ ops' = ops + 1
  /\ last' = [op |-> "deleteEnv", email |-> << >>, ret |-> << >>, err |-> NoError]
  /\ UNCHANGED <<envFile, secretKeys, secretCache, cmInstance, cmConstructed,
                 cmLoads, cmReloads, smInstance, smConstructed, got, memo, cleared>>
  /\ UNCHANGED <<settings, loginVars, pageVars, storageVars, profileVars>>

(***************************************************************************)
(* The login helpers, the retry loop and the visibility checks             *)
(*                                                                         *)
(* One call of a helper runs per behaviour, from a fresh page: the tests   *)
(* call the helpers from beforeEach, where Playwright hands out a new      *)
(* page.  Each await is a step.  The calls that act on the page's content  *)
(* or navigation (goto, waitForLoadState, fill, click, title, textContent) *)
(* either resolve or reject; page.url() is synchronous and                 *)
(* waitForTimeout is a timer, both always succeed while the page is open.  *)
(***************************************************************************)
\* the largest maxAttempts a caller passes
MaxAttempts == 3

\* enum UserType
UserType == <<"SUPER_ADMIN", "ADMIN", "DATA_VIEWER", "EDITOR", "NONE", "PUBLISHER">>

\* Object.values(UserType)
GetAllUserTypes == UserType

\* a value a caller can pass through a cast although the enum lacks it
UserTypeInputs == Range(UserType) \cup {"GUEST"}

\* the default of loginAsAdmin's customerId
DefaultCustomerIdOther == <<"4","2">>

DefaultCustomerId == <<"1","0","8","7">>

CustomerIds == {Undefined, <<"1","0","8","7">>, <<"4","2">>}

\* JavaScript truthiness of an optional string
TruthyString(s) == s # Undefined /\ s # << >>

\* the values of maxAttempts a caller passes: none allowed, a negative one too
MaxAttemptsInputs == -1..MaxAttempts

\* s.includes(sub)
Includes(s, sub) ==
  \E i \in 1..(Len(s) - Len(sub) + 1) : SubSeq(s, i, i + Len(sub) - 1) = sub

\* settings.cityzenSettings.baseUrl after loadConfiguration
CityzenBaseUrl(environ) ==
  IF Truthy(environ, BaseUrlVar) THEN environ[BaseUrlVar] ELSE DefaultBaseUrl

BlankUrl == <<"a","b","o","u","t",":","b","l","a","n","k">>

\* the URL navigateToLoginPage opens
LoginUrl(environ) == CityzenBaseUrl(environ) \o <<"/","A","c","c","o","u","n","t","/","L","o","g","i","n","?","R","e","t","u","r","n","U","r","l","=","%","2","F","h","o","m","e">>

\* the URL isAdminDashboardLoaded waits for
CivicHomeUrl(environ, customerId) ==
  CityzenBaseUrl(environ) \o <<"/","C","u","s","t","o","m","e","r","/","C","i","v","i","c","H","o","m","e","/">> \o customerId

SuperAdminHomePath == <<"/","S","u","p","e","r","A","d","m","i","n","/","H","o","m","e">>

AccountLoginPath == <<"/","A","c","c","o","u","n","t","/","L","o","g","i","n">>

\* where the application can be after the form was submitted
Destinations(environ) ==
  {LoginUrl(environ), CityzenBaseUrl(environ) \o SuperAdminHomePath,
   CivicHomeUrl(environ, <<"1","0","8","7">>), CivicHomeUrl(environ, <<"4","2">>)}

\* the text of '#email-input-error'
ErrorText == <<"I","n","v","a","l","i","d"," ","l","o","g","i","n">>

\* EnvironmentConfig: the variables that name the users' emails, and the defaults
EmailVar ==
  [SUPER_ADMIN |-> <<"S","U","P","E","R","_","A","D","M","I","N","_","E","M","A","I","L">>, ADMIN |-> <<"A","D","M","I","N","_","E","M","A","I","L">>,
   DATA_VIEWER |-> <<"D","A","T","A","_","V","I","E","W","E","R","_","E","M","A","I","L">>, EDITOR |-> <<"E","D","I","T","O","R","_","E","M","A","I","L">>,
   NONE |-> <<"N","O","N","E","_","E","M","A","I","L">>, PUBLISHER |-> <<"P","U","B","L","I","S","H","E","R","_","E","M","A","I","L">>]

DefaultEmail ==
  [SUPER_ADMIN |-> <<"s","u","p","e","r","a","d","m","i","n","t","e","s","t","@","p","u","b","l","i","c","i","n","p","u","t",".","c","o","m">>,
   ADMIN |-> <<"a","d","m","i","n","_","t","e","s","t","@","p","u","b","l","i","c","i","n","p","u","t",".","o","r","g">>,
   DATA_VIEWER |-> <<"d","a","t","a","v","i","e","w","e","r","_","t","e","s","t","@","p","u","b","l","i","c","i","n","p","u","t",".","o","r","g">>,
   EDITOR |-> <<"e","d","i","t","o","r","_","t","e","s","t","@","p","u","b","l","i","c","i","n","p","u","t",".","o","r","g">>,
   NONE |-> <<"n","o","n","e","_","t","e","s","t","@","p","u","b","l","i","c","i","n","p","u","t",".","o","r","g">>,
   PUBLISHER |-> <<"p","u","b","l","i","s","h","e","r","_","t","e","s","t","@","p","u","b","l","i","c","i","n","p","u","t",".","o","r","g">>]

\* getUserEmails(): this.get('X_EMAIL') || '<default>' for each user type
GetUserEmails(config) ==
  [t \in DOMAIN EmailVar |->
     IF Truthy(config, EmailVar[t]) THEN config[EmailVar[t]] ELSE DefaultEmail[t]]

\* the login routine each case of loginAsUser's switch calls
LoginRoutineOfSwapped ==
  [SUPER_ADMIN |-> "loginAsSuperAdmin", ADMIN |-> "loginAsAdmin",
   DATA_VIEWER |-> "loginAsDataViewer", EDITOR |-> "loginAsNone",
   NONE |-> "loginAsEditor", PUBLISHER |-> "loginAsPublisher"]

LoginRoutineOf ==
  [SUPER_ADMIN |-> "loginAsSuperAdmin", ADMIN |-> "loginAsAdmin",
   DATA_VIEWER |-> "loginAsDataViewer", EDITOR |-> "loginAsEditor",
   NONE |-> "loginAsNone", PUBLISHER |-> "loginAsPublisher"]

\* the user type each routine asks the credentials of
UserTypeOf ==
  [loginAsSuperAdmin |-> "SUPER_ADMIN", loginAsAdmin |-> "ADMIN",
   loginAsDataViewer |-> "DATA_VIEWER", loginAsEditor |-> "EDITOR",
   loginAsNone |-> "NONE", loginAsPublisher |-> "PUBLISHER"]

\* the name each routine hands to verifyLoginSuccess
RoleOf ==
  [loginAsDataViewer |-> "Data Viewer", loginAsEditor |-> "Editor",
   loginAsNone |-> "None", loginAsPublisher |-> "Publisher"]

\* errors: the text of the message, whom it names, its argument, and for
\* retryLogin's error the number of attempts and the text of the last error
Error(text, who, arg) == [text |-> text, who |-> who, arg |-> arg, n |-> 0, cause |-> ""]

NoErr == Error("none", "", << >>)

EngineError(call) == Error("engine", call, << >>)

\* the error of the retry loop without the last error in it
RetryErrorWithoutCause(userType, maxAttempts, e) ==
  [text |-> " login failed after ", who |-> userType, arg |-> << >>,
   n |-> maxAttempts, cause |-> ""]

\* throw new Error(`${userType} login failed after ${maxAttempts} attempts. Last
\* error: ${error}`)
RetryError(userType, maxAttempts, e) ==
  [text |-> " login failed after ", who |-> userType, arg |-> << >>,
   n |-> maxAttempts, cause |-> e.text]

NoCredentials == [email |-> << >>, password |-> << >>]

NoRoutine == [name |-> "none", customerId |-> Undefined]

NoResult == [err |-> NoErr, ret |-> "none", wait |-> "none"]

\* a call a test makes
TopCall(op, userType, customerId, maxAttempts, arg) ==
  [op |-> op, userType |-> userType, customerId |-> customerId,
   maxAttempts |-> maxAttempts, arg |-> arg]

(***************************************************************************)
(* The secret manager and the configuration singleton at work              *)
(***************************************************************************)
\* a .env file with a password and an account of its own
SampleEnvFile ==
  Put(Put(EmptyMap, TestSuperAdminPassword, <<"p","w","1">>), UserSecretVar, CustomKey)

\* no page object runs: the page shows no counts
NoPageObject ==
  /\ counts = [total |-> Undefined, potential |-> Undefined]
  /\ totalCount = NaN
  /\ potentialCount = NaN
  /\ loopIndex = 0
  /\ tab = 0

\* no storage service is constructed
NoStorage ==
  /\ blobServiceClient = "undefined"
  /\ requests = << >>
  /\ uploadedFiles = << >>
  /\ blobs = EmptyMap

\* no profile test runs
NoProfileTests ==
  /\ addresses = {}
  /\ profileTests = << >>

\* no module is loaded yet: the defaults are as declared, no singleton exists
Unloaded ==
  /\ secretKeys = DefaultSecretKeys
  /\ settings = DefaultAppSettings
  /\ secretCache = EmptyMap
  /\ cmInstance = 0
  /\ cmConstructed = 0
  /\ cmLoads = 0
  /\ cmReloads = 0
  /\ smInstance = 0
  /\ smConstructed = 0
  /\ got = [cm |-> {}, sm |-> {}, cmCalls |-> 0, smCalls |-> 0]
  /\ last = [op |-> "none", email |-> << >>, ret |-> << >>, err |-> NoError]
  /\ memo = EmptyMap
  /\ cleared = {}
  /\ ops = 0
  /\ envConfig = EmptyMap
  /\ page = [url |-> BlankUrl, errorShown |-> FALSE]
  /\ pc = "idle"
  /\ top = TopCall("none", "", Undefined, 0, << >>)
  /\ routine = NoRoutine
  /\ credentials = NoCredentials
  /\ currentUrl = << >>
  /\ hasError = FALSE
  /\ loginAttempts = 0
  /\ loginSuccessful = FALSE
  /\ attempts = << >>
  /\ error = NoErr
  /\ logins = << >>
  /\ trace = << >>
  /\ waits = << >>
  /\ res = NoResult
  /\ NoPageObject
  /\ NoStorage
  /\ NoProfileTests

InitSecrets ==
  /\ env \in {EmptyMap, Put(EmptyMap, EmailEnvKey(SuperAdminEmail), <<"p","w","2">>)}
  /\ envFile \in {EmptyMap, SampleEnvFile}
  /\ Unloaded

NextSecrets ==
  \/ CMGetInstance
  \/ SMGetInstance
  \/ Reload
  \/ \E e \in OpEmails : RetrievePasswordSync(e)
  \/ \E e \in OpEmails : RetrievePassword(e)
  \/ ClearCache
  \/ \E e \in OpEmails, k \in OpKeys : AddAccount(e, k)
  \/ \E e \in OpEmails : RemoveAccount(e)
  \/ \E n \in EnvNames, v \in EnvValues : SetEnv(n, v)
  \/ \E n \in EnvNames : DeleteEnv(n)

SpecSecrets == InitSecrets /\ [][NextSecrets]_vars

(***************************************************************************)
(* The configuration loaded from different environments                    *)
(***************************************************************************)
\* process.env before the configuration module is loaded: each variable is not
\* set, set empty, or set to a value
ConfigEnvs ==
  LET EnvOf(pairs) ==
        [n \in {p[1] : p \in {q \in Range(pairs) : q[2] # Undefined}} |->
           (CHOOSE p \in Range(pairs) : p[1] = n)[2]]
  IN  {EnvOf(<<<<BaseUrlVar, b>>, <<ConfigVar.BROWSER, br>>, <<ConfigVar.HEADLESS, h>>,
               <<ConfigVar.TIMEOUT, t>>, <<ConfigVar.SCREENSHOT_BEHAVIOR, sb>>,
               <<ConfigVar.SCREENSHOT_CONTAINER, sc>>, <<ConfigVar.RETRIES, r>>,
               <<ConfigVar.WORKERS, w>>>>) :
         b \in {Undefined, << >>, <<"h","t","t","p","s",":","/","/","x",".","i","o">>},
         br \in {Undefined, <<"F","i","r","e","f","o","x">>},
         h \in {Undefined, << >>, <<"t","r","u","e">>, <<"f","a","l","s","e">>},
         t \in {Undefined, << >>, <<"3","0">>, <<"5","s">>},
         sb \in {Undefined, <<"N","e","v","e","r">>},
         sc \in {Undefined, <<"s","h","o","t","s">>},
         r \in {Undefined, <<"0">>},
         w \in {Undefined, <<"8">>}}

\* a .env file that sets some of the variables
ConfigEnvFile ==
  Put(Put(Put(EmptyMap, BaseUrlVar, <<"h","t","t","p","s",":","/","/","f",".","i","o">>), ConfigVar.TIMEOUT, <<"4","5">>),
      ConfigVar.HEADLESS, <<"f","a","l","s","e">>)

InitConfig ==
  /\ env \in ConfigEnvs
  /\ envFile \in {EmptyMap, ConfigEnvFile}
  /\ Unloaded

NextConfig ==
  \/ CMGetInstance
  \/ Reload

SpecConfig == InitConfig /\ [][NextConfig]_vars

(***************************************************************************)
(* Reloads after the environment or the accounts have changed              *)
(***************************************************************************)
\* the variables a test deletes before it reloads the configuration
ReloadVars == {BaseUrlVar, ConfigVar.TIMEOUT, UserSecretVar}

\* process.env with all of them set
ReloadEnv ==
  Put(Put(Put(EmptyMap, BaseUrlVar, <<"h","t","t","p","s",":","/","/","x",".","i","o">>),
          ConfigVar.TIMEOUT, <<"3","0">>),
      UserSecretVar, CustomKey)

InitReload ==
  /\ env \in {[n \in names |-> ReloadEnv[n]] : names \in SUBSET ReloadVars}
  /\ envFile = EmptyMap
  /\ Unloaded

NextReload ==
  \/ CMGetInstance
  \/ SMGetInstance
  \/ Reload
  \/ \E n \in ReloadVars : DeleteEnv(n)
  \/ \E e \in OpEmails, k \in OpKeys : AddAccount(e, k)

SpecReload == InitReload /\ [][NextReload]_vars

(***************************************************************************)
(* The steps of the login helpers                                          *)
(***************************************************************************)
\* the positions inside a login helper
HelperPcs == {"switch", "creds", "goto", "load", "fillEmail", "fillPassword", "click",
              "wait", "waitForURL", "title", "isErrorMessageVisible",
              "getErrorMessage", "getText"}

\* the variables of the secret manager a login leaves alone
secretRest == <<env, envFile, secretKeys, settings, cmInstance, cmConstructed, cmLoads,
                cmReloads, smInstance, smConstructed, got, last, memo, cleared, ops>>

locals == <<routine, credentials, currentUrl, hasError, logins>>

\* the statement goes on to the next await
Continue(next) ==
  /\ pc' = next
  /\ UNCHANGED <<res, loginAttempts, loginSuccessful, attempts, error>>

\* the page objects that have a retryLogin of their own
RetryLoginClasses == {"CRMPage", "ProjectAdminPage", "SegmentationPage"}

\* the callers that wrap a login in the retry loop
RetryLoops == {"retryLogin", "beforeEach"}

\* the test of the catch block, one attempt late
AttemptsUsedUpLate(attemptsMade, maxAttempts) == attemptsMade > maxAttempts

\* if (loginAttempts >= maxAttempts)
AttemptsUsedUp(attemptsMade, maxAttempts) == attemptsMade >= maxAttempts

\* a helper returns: retryLogin goes on after its call (loginSuccessful = true,
\* then the loop's test), any other caller is done
HelperReturns ==
  IF top.op \in RetryLoops
  THEN /\ loginSuccessful' = TRUE
       /\ attempts' = [attempts EXCEPT ![Len(attempts)] = "ok"]
       /\ pc' = "while"
       /\ UNCHANGED <<res, loginAttempts, error>>
  ELSE /\ pc' = "done"
       /\ res' = [NoResult EXCEPT !.ret = "void"]
       /\ UNCHANGED <<loginAttempts, loginSuccessful, attempts, error>>

\* a helper throws e: retryLogin's catch block counts the attempt and throws its
\* own error when the attempts are used up, else starts the wait before the
\* next attempt; any other caller fails with e
HelperThrows(e) ==
  /\ error' = e
  /\ IF top.op \in RetryLoops
     THEN /\ loginAttempts' = loginAttempts + 1
          /\ attempts' = [attempts EXCEPT ![Len(attempts)] = "failed"]
          /\ IF AttemptsUsedUp(loginAttempts + 1, top.maxAttempts)
             THEN /\ pc' = "done"
                  /\ res' = [NoResult EXCEPT
                               !.err = RetryError(IF top.op = "beforeEach"
                                                  THEN "Profile test super admin"
                                                  ELSE top.userType,
                                                  top.maxAttempts, e)]
             ELSE /\ pc' = "retryWait"
                  /\ res' = res
          /\ UNCHANGED loginSuccessful
     ELSE /\ pc' = "done"
          /\ res' = [NoResult EXCEPT !.err = e]
          /\ UNCHANGED <<loginAttempts, loginSuccessful, attempts>>

\* a call of page or of a locator, recorded
Browser(call) == trace' = Append(trace, call)

\* the call of one of the login routines: its parameter and its locals
EnterRoutine(name, customerId) ==
  /\ routine' = [name |-> name, customerId |-> customerId]
  /\ logins' = Append(logins, [name |-> name, customerId |-> customerId])
  /\ credentials' = NoCredentials
  /\ currentUrl' = << >>
  /\ hasError' = FALSE

\* loginAsAdmin(customerId: string = '1087')
LoginAsAdminParameter(customerId) ==
  IF customerId = Undefined THEN DefaultCustomerId ELSE customerId

\* retryLogin(userType, customerId, maxAttempts)
CallRetryLogin(class, userType, customerId, maxAttempts) ==
  /\ pc = "idle"
  /\ top' = TopCall("retryLogin", userType, customerId, maxAttempts, class)
  /\ loginAttempts' = 0
  /\ loginSuccessful' = FALSE
  /\ pc' = "while"
  /\ UNCHANGED <<res, attempts, error, locals, page, trace, waits, envConfig,
                 secretCache, secretRest, pageVars, storageVars, profileVars>>

\* beforeEach of the profile tests: the same loop written out around
\* loginAsSuperAdmin(), with maxAttempts = 2
CallBeforeEach ==
  /\ pc = "idle"
  /\ top' = TopCall("beforeEach", "SUPER_ADMIN", Undefined, 2, "profile.spec.ts")
  /\ loginAttempts' = 0
  /\ loginSuccessful' = FALSE
  /\ pc' = "while"
  /\ UNCHANGED <<res, attempts, error, locals, page, trace, waits, envConfig,
                 secretCache, secretRest, pageVars, storageVars, profileVars>>

\* while (loginAttempts < maxAttempts && !loginSuccessful)
RetryCondition(attemptsMade, maxAttempts, successful) ==
  attemptsMade < maxAttempts /\ ~successful

\* one more turn of the loop: the admin with a customer id logs in through
\* loginAsAdmin, everybody else through loginAsUser
RetryLoginAttempt ==
  /\ pc = "while"
  /\ RetryCondition(loginAttempts, top.maxAttempts, loginSuccessful)
  /\ attempts' = Append(attempts, "running")
  /\ trace' = << >>
  /\ IF top.op = "beforeEach"
     THEN /\ EnterRoutine("loginAsSuperAdmin", Undefined)
          /\ pc' = "creds"
     ELSE IF top.userType = "ADMIN" /\ TruthyString(top.customerId)
     THEN /\ EnterRoutine("loginAsAdmin", LoginAsAdminParameter(top.customerId))
          /\ pc' = "creds"
     ELSE /\ pc' = "switch"
          /\ UNCHANGED locals
  /\ UNCHANGED <<res, loginAttempts, loginSuccessful, error, page, top, waits,
                 envConfig, secretCache, secretRest, pageVars, storageVars, profileVars>>

\* the loop ends and retryLogin returns
RetryLoginReturn ==
  /\ pc = "while"
  /\ ~RetryCondition(loginAttempts, top.maxAttempts, loginSuccessful)
  /\ pc' = "done"
  /\ res' = [NoResult EXCEPT !.ret = "void"]
  /\ UNCHANGED <<loginAttempts, loginSuccessful, attempts, error, locals, page,
                 top, trace, waits, envConfig, secretCache, secretRest, pageVars, storageVars, profileVars>>

\* the wait of the login helpers, waitForTimeout(5000), taken before the retry
RetryDelayLonger == 5000

\* the wait before a retry, in ms
RetryDelay == 2000

\* await this.page.waitForTimeout(2000) at the end of the catch block
RetryLoginWait ==
  /\ pc = "retryWait"
  /\ waits' = Append(waits, RetryDelay)
  /\ error' = NoErr
  /\ pc' = "while"
  /\ UNCHANGED <<res, loginAttempts, loginSuccessful, attempts, locals, page, top,
                 trace, envConfig, secretCache, secretRest, pageVars, storageVars, profileVars>>

\* loginAsUser(userType, customerId), called by a test
CallLoginAsUser(userType, customerId) ==
  /\ pc = "idle"
  /\ top' = TopCall("loginAsUser", userType, customerId, 0, << >>)
  /\ pc' = "switch"
  /\ UNCHANGED <<res, loginAttempts, loginSuccessful, attempts, error, locals, page,
                 trace, waits, envConfig, secretCache, secretRest, pageVars, storageVars, profileVars>>

\* loginAsUser's switch
LoginAsUserSwitch ==
  /\ pc = "switch"
  /\ IF top.userType \in DOMAIN LoginRoutineOf
     THEN /\ EnterRoutine(LoginRoutineOf[top.userType],
                          IF top.userType = "ADMIN"
                          THEN LoginAsAdminParameter(top.customerId)
                          ELSE Undefined)
          /\ Continue("creds")
     ELSE /\ HelperThrows(Error("Unsupported user type: ", top.userType, << >>))
          /\ UNCHANGED locals
  /\ UNCHANGED <<page, top, trace, waits, envConfig, secretCache, secretRest, pageVars, storageVars, profileVars>>

\* loginAsSuperAdmin(), loginAsDataViewer(), loginAsEditor(), loginAsNone(),
\* loginAsPublisher(), called by a test
CallLoginAs(name) ==
  /\ pc = "idle"
  /\ top' = TopCall(name, UserTypeOf[name], Undefined, 0, << >>)
  /\ EnterRoutine(name, Undefined)
  /\ pc' = "creds"
  /\ UNCHANGED <<res, loginAttempts, loginSuccessful, attempts, error, page, trace,
                 waits, envConfig, secretCache, secretRest, pageVars, storageVars, profileVars>>

\* loginAsAdmin(customerId), called by a test
CallLoginAsAdmin(customerId) ==
  /\ pc = "idle"
  /\ top' = TopCall("loginAsAdmin", "ADMIN", customerId, 0, << >>)
  /\ EnterRoutine("loginAsAdmin", LoginAsAdminParameter(customerId))
  /\ pc' = "creds"
  /\ UNCHANGED <<res, loginAttempts, loginSuccessful, attempts, error, page, trace,
                 waits, envConfig, secretCache, secretRest, pageVars, storageVars, profileVars>>

\* getUserCredentials(userType)
GetUserCredentials ==
  /\ pc = "creds"
  /\ LET userType == UserTypeOf[routine.name]
         email == GetUserEmails(envConfig)[userType]
         r == RetrievePasswordSyncResult(email, secretCache, secretKeys, env)
     IN  IF email = << >>
         THEN /\ HelperThrows(Error("Email not found for user type: ", userType, << >>))
              /\ UNCHANGED <<credentials, secretCache>>
         ELSE /\ secretCache' = r.cache
              /\ IF r.err # NoError
                 THEN /\ HelperThrows(Error(r.err, "", email))
                      /\ UNCHANGED credentials
                 ELSE /\ credentials' = [email |-> email, password |-> r.ret]
                      /\ Continue("goto")
  /\ Browser("getUserCredentials")
  /\ UNCHANGED <<routine, currentUrl, hasError, logins, page, top, waits, envConfig,
                 secretRest, pageVars, storageVars, profileVars>>

\* a step of performLogin: the call resolves and the login goes on, or rejects
PerformLoginStep(at, call, next) ==
  /\ pc = at
  /\ Browser(call)
  /\ \E resolves \in BOOLEAN :
       IF resolves
       THEN /\ Continue(next)
            /\ page' = IF call = "goto"
                       THEN [url |-> LoginUrl(env), errorShown |-> FALSE]
                       ELSE page
       ELSE /\ HelperThrows(EngineError(call))
            /\ page' = page
  /\ UNCHANGED <<locals, top, waits, envConfig, secretCache, secretRest, pageVars, storageVars, profileVars>>

\* navigateToLoginPage: navigateTo(`${baseUrl}/Account/Login?ReturnUrl=%2Fhome`)
NavigateToLoginPage == PerformLoginStep("goto", "goto", "load")

\* waitForPageLoad
WaitForPageLoad == PerformLoginStep("load", "waitForLoadState", "fillEmail")

\* enterEmail with the locator of the password field
EnterEmailIntoPassword ==
  PerformLoginStep("fillEmail", "fill(passwordInput)", "fillPassword")

\* enterEmail(credentials.email): locator(this.emailInput).fill(email)
EnterEmail == PerformLoginStep("fillEmail", "fill(emailInput)", "fillPassword")

\* enterPassword(credentials.password): locator(this.passwordInput).fill(password)
EnterPassword == PerformLoginStep("fillPassword", "fill(passwordInput)", "click")

\* clickLoginButton
ClickLoginButton == PerformLoginStep("click", "click", "wait")

\* BasePage.isElementVisible: true when waitForSelector resolves, false from the
\* catch block; written here with the error a missing catch would let through
IsElementVisiblePropagates(outcome) ==
  [ret |-> outcome = "visible",
   err |-> IF outcome = "failed" THEN EngineError("waitForSelector") ELSE NoErr]

IsElementVisible(outcome) == [ret |-> outcome = "visible", err |-> NoErr]

\* what waitForSelector(visible, 5000) can do: resolve, time out, or fail otherwise
WaitOutcomes == {"visible", "timeout", "failed"}

\* the application after the post-click wait: where it went and whether it
\* shows the login error
PagesAfterWait ==
  [url : Destinations(env), errorShown : BOOLEAN]

\* loginAsSuperAdmin after waitForTimeout(5000): the check of the URL
LoginAsSuperAdminCheck ==
  /\ pc = "wait"
  /\ routine.name = "loginAsSuperAdmin"
  /\ Browser("waitForTimeout")
  /\ page' \in PagesAfterWait
  /\ currentUrl' = page'.url
  /\ IF Includes(page'.url, SuperAdminHomePath)
     THEN HelperReturns
     ELSE HelperThrows(Error("Super Admin login failed. Current URL: ", "", page'.url))
  /\ UNCHANGED <<routine, credentials, hasError, logins, top, waits, envConfig,
                 secretCache, secretRest, pageVars, storageVars, profileVars>>

\* loginAsAdmin after waitForTimeout(5000): isAdminDashboardLoaded starts to wait
LoginAsAdminWait ==
  /\ pc = "wait"
  /\ routine.name = "loginAsAdmin"
  /\ Browser("waitForTimeout")
  /\ page' \in PagesAfterWait
  /\ Continue("waitForURL")
  /\ UNCHANGED <<locals, top, waits, envConfig, secretCache, secretRest, pageVars, storageVars, profileVars>>

\* isAdminDashboardLoaded(customerId): waitForURL resolves when the page is at
\* the URL or gets there within the timeout, and the catch block answers false
IsAdminDashboardLoaded ==
  /\ pc = "waitForURL"
  /\ Browser("waitForURL")
  /\ LET target == CivicHomeUrl(env, routine.customerId)
     IN  \E arrives \in BOOLEAN :
           /\ page' = IF arrives THEN [page EXCEPT !.url = target] ELSE page
           /\ IF page'.url = target
              THEN HelperReturns
              ELSE HelperThrows(Error("Admin login failed for customer ", "",
                                      routine.customerId))
  /\ UNCHANGED <<locals, top, waits, envConfig, secretCache, secretRest, pageVars, storageVars, profileVars>>

\* currentUrl.includes('/Account/Login')
StillOnLoginPageExact(url) == url = AccountLoginPath

StillOnLoginPage(url) == Includes(url, AccountLoginPath)

\* the other four routines after waitForTimeout(5000): verifyLoginSuccess reads
\* the URL and awaits the title
VerifyLoginSuccessStart ==
  /\ pc = "wait"
  /\ routine.name \in DOMAIN RoleOf
  /\ Browser("waitForTimeout")
  /\ page' \in PagesAfterWait
  /\ currentUrl' = page'.url
  /\ Continue("title")
  /\ UNCHANGED <<routine, credentials, hasError, logins, top, waits, envConfig,
                 secretCache, secretRest, pageVars, storageVars, profileVars>>

\* verifyLoginSuccess once page.title() has settled: the test of the URL, then
\* isErrorMessageVisible starts to wait
VerifyLoginSuccessUrl ==
  /\ pc = "title"
  /\ Browser("title")
  /\ \E resolves \in BOOLEAN :
       IF ~resolves
       THEN HelperThrows(EngineError("title"))
       ELSE IF StillOnLoginPage(currentUrl)
            THEN HelperThrows(Error(" login failed - still on login page",
                                    RoleOf[routine.name], << >>))
            ELSE Continue("isErrorMessageVisible")
  /\ UNCHANGED <<locals, page, top, waits, envConfig, secretCache, secretRest, pageVars, storageVars, profileVars>>

\* hasError = await isErrorMessageVisible(); the application may show or hide
\* the message while the selector is waited for
VerifyLoginSuccessError ==
  /\ pc = "isErrorMessageVisible"
  /\ Browser("waitForSelector")
  /\ \E shown \in BOOLEAN :
       /\ page' = [page EXCEPT !.errorShown = shown]
       /\ hasError' = IsElementVisible(IF shown THEN "visible" ELSE "timeout").ret
       /\ IF hasError' THEN Continue("getErrorMessage") ELSE HelperReturns
  /\ UNCHANGED <<routine, credentials, currentUrl, logins, top, waits, envConfig,
                 secretCache, secretRest, pageVars, storageVars, profileVars>>

\* getErrorMessage(): the text if the message is (still) visible, else ''
GetErrorMessage ==
  /\ pc = "getErrorMessage"
  /\ Browser("waitForSelector")
  /\ \E shown \in BOOLEAN :
       /\ page' = [page EXCEPT !.errorShown = shown]
       /\ IF IsElementVisible(IF shown THEN "visible" ELSE "timeout").ret
          THEN Continue("getText")
          ELSE HelperThrows(Error(" login failed with error: ",
                                  RoleOf[routine.name], << >>))
  /\ UNCHANGED <<locals, top, waits, envConfig, secretCache, secretRest, pageVars, storageVars, profileVars>>

\* getText(errorMessage): waitForElement, then textContent() || ''
GetText ==
  /\ pc = "getText"
  /\ Browser("textContent")
  /\ \E resolves \in BOOLEAN :
       IF resolves
       THEN HelperThrows(Error(" login failed with error: ", RoleOf[routine.name],
                               ErrorText))
       ELSE HelperThrows(EngineError("textContent"))
  /\ UNCHANGED <<locals, page, top, waits, envConfig, secretCache, secretRest, pageVars, storageVars, profileVars>>

\* the page objects' checks that return isElementVisible(selector), or its negation
VerifyOps == {"isElementVisible", "verifyCRMHomePageVisible",
              "verifyCreateNewContactListModalClosed", "verifyProjectAdminPageOpen"}

\* the tab names verifyTabOpen knows, in lower case
KnownTabs == {<<"e","m","a","i","l">>, <<"t","e","x","t">>, <<"p","a","r","t","i","c","i","p","a","n","t","s">>, <<"c","o","m","m","e","n","t","s">>, <<"s","u","b","s","c","r","i","b","e","r","s">>}

TabNames == {<<"E","m","a","i","l">>, <<"s","u","b","s","c","r","i","b","e","r","s">>, <<"S","e","t","t","i","n","g","s">>}

LowerOfChar(c) ==
  IF \E i \in 1..Len(UpperCase) : UpperCase[i] = c
  THEN LowerCase[CHOOSE i \in 1..Len(UpperCase) : UpperCase[i] = c]
  ELSE c

ToLowerCase(s) == [i \in 1..Len(s) |-> LowerOfChar(s[i])]

CallVerify(op) ==
  /\ pc = "idle"
  /\ op \in VerifyOps
  /\ top' = TopCall(op, "", Undefined, 0, << >>)
  /\ pc' = "waitForSelector"
  /\ UNCHANGED <<res, loginAttempts, loginSuccessful, attempts, error, locals, page,
                 trace, waits, envConfig, secretCache, secretRest, pageVars, storageVars, profileVars>>

\* verifyTabOpen(tabName): the switch throws for a name it does not know
CallVerifyTabOpen(tabName) ==
  /\ pc = "idle"
  /\ top' = TopCall("verifyTabOpen", "", Undefined, 0, tabName)
  /\ IF ToLowerCase(tabName) \in KnownTabs
     THEN /\ pc' = "waitForSelector"
          /\ UNCHANGED <<res, error>>
     ELSE /\ pc' = "done"
          /\ error' = Error("Unknown tab name: ", "", tabName)
          /\ res' = [NoResult EXCEPT !.err = Error("Unknown tab name: ", "", tabName)]
  /\ UNCHANGED <<loginAttempts, loginSuccessful, attempts, locals, page, trace,
                 waits, envConfig, secretCache, secretRest, pageVars, storageVars, profileVars>>

\* isElementVisible(selector) settles, and the check returns its answer
WaitForSelector ==
  /\ pc = "waitForSelector"
  /\ Browser("waitForSelector")
  /\ \E outcome \in WaitOutcomes :
       LET r == IsElementVisible(outcome)
           answer == IF top.op = "verifyCreateNewContactListModalClosed"
                     THEN ~r.ret ELSE r.ret
       IN  /\ pc' = "done"
           /\ error' = r.err
           /\ res' = IF r.err.text # "none"
                     THEN [NoResult EXCEPT !.err = r.err, !.wait = outcome]
                     ELSE [NoResult EXCEPT !.ret = BoolString(answer), !.wait = outcome]
  /\ UNCHANGED <<loginAttempts, loginSuccessful, attempts, locals, page, top, waits,
                 envConfig, secretCache, secretRest, pageVars, storageVars, profileVars>>

\* the environments the suite runs in: BASE_URL is set (BasePage requires it),
\* the users' emails are the defaults, or one is set empty and one to an
\* account without a secret key
LoginEnvs ==
  LET base == Put(EmptyMap, BaseUrlVar, DefaultBaseUrl)
  IN  {base, Put(Put(base, EmailVar.DATA_VIEWER, << >>), EmailVar.ADMIN, CustomEmail)}

\* both singletons are constructed, the page is new
Loaded ==
  /\ envFile = EmptyMap
  /\ envConfig = env
  /\ secretKeys = LoadUserAccountSecrets(DefaultSecretKeys, env)
  /\ settings = BuildSettingsFromEnvironment(DefaultAppSettings, env)
  /\ secretCache = EmptyMap
  /\ cmInstance = 1
  /\ cmConstructed = 1
  /\ cmLoads = 1
  /\ cmReloads = 0
  /\ smInstance = 1
  /\ smConstructed = 1
  /\ got = [cm |-> {1}, sm |-> {1}, cmCalls |-> 1, smCalls |-> 1]
  /\ last = [op |-> "none", email |-> << >>, ret |-> << >>, err |-> NoError]
  /\ memo = EmptyMap
  /\ cleared = {}
  /\ ops = 0
  /\ page = [url |-> BlankUrl, errorShown |-> FALSE]
  /\ pc = "idle"
  /\ top = TopCall("none", "", Undefined, 0, << >>)
  /\ routine = NoRoutine
  /\ credentials = NoCredentials
  /\ currentUrl = << >>
  /\ hasError = FALSE
  /\ loginAttempts = 0
  /\ loginSuccessful = FALSE
  /\ attempts = << >>
  /\ error = NoErr
  /\ logins = << >>
  /\ trace = << >>
  /\ waits = << >>
  /\ res = NoResult
  /\ NoPageObject
  /\ NoStorage
  /\ NoProfileTests

InitLogin ==
  /\ env \in LoginEnvs
  /\ Loaded

NextLogin ==
  \/ \E class \in RetryLoginClasses, u \in UserTypeInputs, c \in CustomerIds,
        m \in MaxAttemptsInputs : CallRetryLogin(class, u, c, m)
  \/ CallBeforeEach
  \/ RetryLoginAttempt
  \/ RetryLoginReturn
  \/ RetryLoginWait
  \/ \E u \in UserTypeInputs, c \in CustomerIds : CallLoginAsUser(u, c)
  \/ LoginAsUserSwitch
  \/ \E name \in DOMAIN UserTypeOf \ {"loginAsAdmin"} : CallLoginAs(name)
  \/ \E c \in CustomerIds : CallLoginAsAdmin(c)
  \/ GetUserCredentials
  \/ NavigateToLoginPage
  \/ WaitForPageLoad
  \/ EnterEmail
  \/ EnterPassword
  \/ ClickLoginButton
  \/ LoginAsSuperAdminCheck
  \/ LoginAsAdminWait
  \/ IsAdminDashboardLoaded
  \/ VerifyLoginSuccessStart
  \/ VerifyLoginSuccessUrl
  \/ VerifyLoginSuccessError
  \/ GetErrorMessage
  \/ GetText
  \/ \E op \in VerifyOps : CallVerify(op)
  \/ \E t \in TabNames : CallVerifyTabOpen(t)
  \/ WaitForSelector

\* the event loop runs every continuation that is ready
SpecLogin == InitLogin /\ [][NextLogin]_vars /\ WF_vars(NextLogin)

(***************************************************************************)
(* The page objects' other methods: the counts of a segment, the timed     *)
(* waits, the click with retries and the walk through the project's tabs.  *)
(* One call runs per behaviour; each await is a step.                      *)
(***************************************************************************)
\* the variables a method of a page object leaves alone
pageRest == <<envConfig, page, routine, credentials, currentUrl, hasError,
              loginAttempts, loginSuccessful, attempts, logins, waits, secretCache,
              secretRest, storageVars, profileVars>>

\* a call of page or of a locator, recorded with its target (a selector, a tab, a
\* load state), its time in ms where it has one, and how it settled
Engine(call, target, ms, outcome) ==
  trace' = Append(trace, [call |-> call, target |-> target, ms |-> ms,
                          outcome |-> outcome])

\* the method returns v, or throws e
Returns(v) ==
  /\ pc' = "done"
  /\ res' = [NoResult EXCEPT !.ret = v]

Throws(e) ==
  /\ pc' = "done"
  /\ res' = [NoResult EXCEPT !.err = e]

\* the selectors of the two counts, per page object
TotalCountElement ==
  [SegmentationPage |-> "xpath=//span[@id=\"mcount\"]",
   CRMPage |-> "xpath=//div[contains(@class, \"total-count\")]"]

PotentialSegmentMembersCount ==
  [SegmentationPage |-> "xpath=//span[@id=\"mcount\"]",
   CRMPage |-> "xpath=//div[contains(@class, \"potential-members-count\")]"]

\* the texts a count's element can hold (Undefined: textContent() is null)
CountTexts == {Undefined, << >>, <<"5">>, <<"7">>, <<"1",",","2","0","4">>, <<"n","/","a">>}

\* the segment pages: the two counts they show, and which of the two
\* span#mcount holds
SegmentPages == [total : CountTexts, potential : CountTexts,
                 mcount : {"total", "potential"}]

\* element.textContent() for a selector, on a page that shows shows
TextContent(shows, selector) ==
  IF selector = TotalCountElement.CRMPage THEN shows.total
  ELSE IF selector = PotentialSegmentMembersCount.CRMPage THEN shows.potential
  ELSE shows[shows.mcount]

\* countText.replace(/\D/g, '')
ReplaceNonDigits(s) == SelectSeq(s, LAMBDA c : c \in DigitChars)

\* parseInt(countText.replace(/\D/g, '')), without the || 0
ParseCountNoDefault(text) == ParseInt(ReplaceNonDigits(text))

\* parseInt(countText.replace(/\D/g, '')) || 0
ParseCount(text) ==
  LET n == ParseInt(ReplaceNonDigits(text))
  IN  IF n.nan \/ n.n = 0 THEN Num(0) ELSE n

\* getTotalCountBelowMembersTable / getPotentialSegmentMembersCount of a page
\* object, getText(selector) having resolved with text (textContent() || '') or
\* rejected: SegmentationPage catches the error and returns 0, CRMPage does not
GetCount(class, text, resolved) ==
  IF resolved
  THEN [ret |-> ParseCount(IF text = Undefined THEN << >> ELSE text), err |-> NoErr,
        caught |-> NoErr]
  ELSE IF class = "SegmentationPage"
  THEN [ret |-> Num(0), err |-> NoErr, caught |-> EngineError("getText")]
  ELSE [ret |-> NaN, err |-> EngineError("getText"), caught |-> NoErr]

CountOps == {"getTotalCountBelowMembersTable", "getPotentialSegmentMembersCount",
             "verifyTotalCountEqualsPotentialCount"}

\* a test calls one of the count methods on a segment's page
CallCount(class, op, shows) ==
  /\ pc = "idle"
  /\ top' = TopCall(op, "", Undefined, 0, [class |-> class])
  /\ counts' = shows
  /\ pc' = IF op = "getPotentialSegmentMembersCount" THEN "potentialCount"
           ELSE "totalCount"
  /\ UNCHANGED <<res, error, trace, totalCount, potentialCount, loopIndex, tab, pageRest>>

\* getText(this.totalCountElement) settles
GetTotalCountBelowMembersTable ==
  /\ pc = "totalCount"
  /\ \E resolved \in BOOLEAN :
       LET r == GetCount(top.arg.class,
                         TextContent(counts, TotalCountElement[top.arg.class]), resolved)
       IN  /\ Engine("getText", TotalCountElement[top.arg.class], 0,
                      IF resolved THEN "ok" ELSE "failed")
           /\ error' = r.caught
           /\ IF r.err.text # "none"
              THEN Throws(r.err) /\ UNCHANGED totalCount
              ELSE IF top.op = "verifyTotalCountEqualsPotentialCount"
              THEN /\ totalCount' = r.ret
                   /\ pc' = "potentialCount"
                   /\ UNCHANGED res
              ELSE Returns(r.ret) /\ UNCHANGED totalCount
  /\ UNCHANGED <<top, counts, potentialCount, loopIndex, tab, pageRest>>

\* getText(this.potentialSegmentMembersCount) settles;
\* verifyTotalCountEqualsPotentialCount returns totalCount === potentialCount
GetPotentialSegmentMembersCount ==
  /\ pc = "potentialCount"
  /\ \E resolved \in BOOLEAN :
       LET r == GetCount(top.arg.class,
                         TextContent(counts, PotentialSegmentMembersCount[top.arg.class]),
                         resolved)
       IN  /\ Engine("getText", PotentialSegmentMembersCount[top.arg.class], 0,
                      IF resolved THEN "ok" ELSE "failed")
           /\ error' = IF r.caught.text # "none" THEN r.caught ELSE error
           /\ IF r.err.text # "none"
              THEN Throws(r.err) /\ UNCHANGED potentialCount
              ELSE IF top.op = "verifyTotalCountEqualsPotentialCount"
              THEN /\ potentialCount' = r.ret
                   /\ Returns(BoolString(totalCount = r.ret))
              ELSE Returns(r.ret) /\ UNCHANGED potentialCount
  /\ UNCHANGED <<top, counts, totalCount, loopIndex, tab, pageRest>>

\* the largest retries a caller of clickElement passes
MaxRetries == 3

\* retries: number = 3
DefaultRetries == 3

\* the test of the catch block that never sees a last attempt
LastAttemptNever(index, retries) == index = retries

\* if (i === retries - 1) throw error
LastAttempt(index, retries) == index = retries - 1

\* the tabs, with the first two swapped
AllProjectTabsSwapped == <<<<"T","e","x","t">>, <<"E","m","a","i","l">>, <<"P","a","r","t","i","c","i","p","a","n","t","s">>, <<"C","o","m","m","e","n","t","s">>, <<"S","u","b","s","c","r","i","b","e","r","s">>>>

\* const tabs = ['Email', 'Text', 'Participants', 'Comments', 'Subscribers']
AllProjectTabs == <<<<"E","m","a","i","l">>, <<"T","e","x","t">>, <<"P","a","r","t","i","c","i","p","a","n","t","s">>, <<"C","o","m","m","e","n","t","s">>, <<"S","u","b","s","c","r","i","b","e","r","s">>>>

\* the engine call waitForSeconds(seconds) of a page object makes: CRMPage awaits
\* waitForLoadState('networkidle'), the others waitForTimeout(seconds * 1000)
WaitForSecondsCall(class, seconds) ==
  IF class = "CRMPage"
  THEN [call |-> "waitForLoadState", target |-> <<"n","e","t","w","o","r","k","i","d","l","e">>, ms |-> 0]
  ELSE [call |-> "waitForTimeout", target |-> << >>, ms |-> seconds * 1000]

\* the arguments of a page object's call
PageArg(class, retries, seconds) ==
  [class |-> class, retries |-> retries, seconds |-> seconds, defaulted |-> FALSE]

\* a test calls waitForSeconds(seconds)
CallWaitForSeconds(class, seconds) ==
  /\ pc = "idle"
  /\ top' = TopCall("waitForSeconds", "", Undefined, 0, PageArg(class, 0, seconds))
  /\ pc' = "waitForSeconds"
  /\ UNCHANGED <<res, error, trace, pageVars, pageRest>>

\* the wait settles: waitForTimeout always resolves, waitForLoadState may reject;
\* clickOnTab goes on to return, and the tab is verified
WaitForSeconds ==
  /\ pc = "waitForSeconds"
  /\ LET c == WaitForSecondsCall(top.arg.class, top.arg.seconds)
     IN  \E resolved \in IF c.call = "waitForTimeout" THEN {TRUE} ELSE BOOLEAN :
           /\ Engine(c.call, c.target, c.ms, IF resolved THEN "ok" ELSE "failed")
           /\ IF ~resolved
              THEN Throws(EngineError(c.call)) /\ error' = EngineError(c.call)
              ELSE /\ IF top.op = "verifyAllProjectTabsLoading"
                      THEN pc' = "verifyTabOpen" /\ UNCHANGED res
                      ELSE Returns("void")
                   /\ UNCHANGED error
  /\ UNCHANGED <<top, pageVars, pageRest>>

\* clickElement(selector, retries) of TestHelpers and of BasePage, retries given or
\* left to its default: the loop starts, or ends at once when i < retries fails
CallClickElement(given, retries) ==
  /\ pc = "idle"
  /\ LET n == IF given THEN retries ELSE DefaultRetries
     IN  /\ top' = TopCall("clickElement", "", Undefined, 0,
                           [PageArg("TestHelpers", n, 0) EXCEPT !.defaulted = ~given])
         /\ IF 0 < n
            THEN pc' = "waitForClickableElement" /\ UNCHANGED res
            ELSE Returns("void")
  /\ loopIndex' = 0
  /\ UNCHANGED <<error, trace, counts, totalCount, potentialCount, tab, pageRest>>

\* the element a click is about: the tab's, or the caller's selector
ClickTarget == IF tab > 0 THEN AllProjectTabs[tab] ELSE <<"#","s","a","v","e">>

\* the catch block of clickElement: the last attempt's error is thrown again,
\* any other is followed by the wait
ClickElementCatch(e) ==
  /\ error' = e
  /\ IF LastAttempt(loopIndex, top.arg.retries)
     THEN Throws(e)
     ELSE pc' = "clickWait" /\ UNCHANGED res

\* clickElement returns; clickOnTab goes on to waitForSeconds(2)
ClickElementReturns ==
  IF top.op = "verifyAllProjectTabsLoading"
  THEN pc' = "waitForSeconds" /\ UNCHANGED res
  ELSE Returns("void")

\* await this.waitForClickableElement(page, selector)
WaitForClickableElement ==
  /\ pc = "waitForClickableElement"
  /\ \E resolved \in BOOLEAN :
       /\ Engine("waitForClickableElement", ClickTarget, 0,
                 IF resolved THEN "ok" ELSE "failed")
       /\ IF resolved
          THEN pc' = "click" /\ UNCHANGED <<res, error>>
          ELSE ClickElementCatch(EngineError("waitForClickableElement"))
  /\ UNCHANGED <<top, pageVars, pageRest>>

\* await page.click(selector); return
Click ==
  /\ pc = "click"
  /\ \E resolved \in BOOLEAN :
       /\ Engine("click", ClickTarget, 0, IF resolved THEN "ok" ELSE "failed")
       /\ IF resolved
          THEN ClickElementReturns /\ UNCHANGED error
          ELSE ClickElementCatch(EngineError("click"))
  /\ UNCHANGED <<top, pageVars, pageRest>>

\* await page.waitForTimeout(1000), then i++ and the test i < retries
ClickElementWait ==
  /\ pc = "clickWait"
  /\ Engine("waitForTimeout", << >>, 1000, "ok")
  /\ loopIndex' = loopIndex + 1
  /\ IF loopIndex + 1 < top.arg.retries
     THEN pc' = "waitForClickableElement" /\ UNCHANGED res
     ELSE ClickElementReturns
  /\ UNCHANGED <<top, error, counts, totalCount, potentialCount, tab, pageRest>>

\* clickOnTab(tab): the switch throws for a name it does not know, else
\* clickElement(tabSelector) starts with the default retries
ClickOnTab(position) ==
  /\ tab' = position
  /\ loopIndex' = 0
  /\ IF ToLowerCase(AllProjectTabs[position]) \in KnownTabs
     THEN pc' = "waitForClickableElement" /\ UNCHANGED <<res, error>>
     ELSE /\ Throws(Error("Unknown tab name: ", "", AllProjectTabs[position]))
          /\ error' = Error("Unknown tab name: ", "", AllProjectTabs[position])

\* a test calls verifyAllProjectTabsLoading(): the first tab is clicked
CallVerifyAllProjectTabsLoading ==
  /\ pc = "idle"
  /\ top' = TopCall("verifyAllProjectTabsLoading", "", Undefined, 0,
                    PageArg("ProjectAdminPage", DefaultRetries, 2))
  /\ ClickOnTab(1)
  /\ UNCHANGED <<trace, counts, totalCount, potentialCount, pageRest>>

\* verifyTabOpen(tab) settles: return false when the tab is not open, else go on
\* with the next tab, and return true after the last
VerifyTabOpen ==
  /\ pc = "verifyTabOpen"
  /\ \E outcome \in WaitOutcomes :
       /\ Engine("waitForSelector", AllProjectTabs[tab], 5000, outcome)
       /\ IF ~IsElementVisible(outcome).ret
          THEN Returns("false") /\ UNCHANGED <<error, tab, loopIndex>>
          ELSE IF tab = Len(AllProjectTabs)
          THEN Returns("true") /\ UNCHANGED <<error, tab, loopIndex>>
          ELSE ClickOnTab(tab + 1)
  /\ UNCHANGED <<top, counts, totalCount, potentialCount, pageRest>>

\* both singletons are constructed in the default environment, the page is new,
\* no call runs
InitPages == InitLogin /\ env = Put(EmptyMap, BaseUrlVar, DefaultBaseUrl)

NextPages ==
  \/ \E class \in {"SegmentationPage", "CRMPage"}, op \in CountOps,
        shows \in SegmentPages : CallCount(class, op, shows)
  \/ GetTotalCountBelowMembersTable
  \/ GetPotentialSegmentMembersCount
  \/ \E class \in {"CRMPage", "ProjectsPage", "SegmentationPage", "ProjectAdminPage"},
        seconds \in {1, 3} : CallWaitForSeconds(class, seconds)
  \/ WaitForSeconds
  \/ \E given \in BOOLEAN, retries \in 0..MaxRetries : CallClickElement(given, retries)
  \/ WaitForClickableElement
  \/ Click
  \/ ClickElementWait
  \/ CallVerifyAllProjectTabsLoading
  \/ VerifyTabOpen

SpecPages == InitPages /\ [][NextPages]_vars

(***************************************************************************)
(* AzureBlobStorageService                                                 *)
(***************************************************************************)
\* the largest number of calls a test makes on the storage service
MaxCalls == 2

NotInitialized == "Azure Blob Storage client not initialized"

StorageOps == {"fileExists", "uploadFile", "downloadFile", "deleteFile", "listFiles",
               "generateSasUri", "getFileMetadata"}

\* the checks of uploadFile with the file looked for before the client
PrecheckFileFirst(op, client, fileFound, sasEnabled) ==
  IF op = "uploadFile" /\ ~fileFound THEN "File not found: "
  ELSE IF client = "null"
  THEN IF op = "fileExists" THEN "return false" ELSE NotInitialized
  ELSE IF op = "generateSasUri" /\ ~sasEnabled
  THEN "SAS URI generation is disabled in configuration"
  ELSE "none"

\* what a method of the service does before it contacts storage: the test of the
\* client first (fileExists returns false, the others throw), then uploadFile's
\* fs.existsSync(filePath) and generateSasUri's shouldGenerateSasUri
Precheck(op, client, fileFound, sasEnabled) ==
  IF client = "null"
  THEN IF op = "fileExists" THEN "return false" ELSE NotInitialized
  ELSE IF op = "uploadFile" /\ ~fileFound THEN "File not found: "
  ELSE IF op = "generateSasUri" /\ ~sasEnabled
  THEN "SAS URI generation is disabled in configuration"
  ELSE "none"

\* new AzureBlobStorageService(): initializeClient leaves the client null without a
\* connection string, and when new BlobServiceClient(connectionString) throws
NewAzureBlobStorageService ==
  /\ blobServiceClient = "undefined"
  /\ \E accepted \in BOOLEAN :
       blobServiceClient' =
         IF settings.azureBlobStorageConfiguration.connectionString = << >> \/ ~accepted
         THEN "null" ELSE "client"
  /\ top' = TopCall("new AzureBlobStorageService", "", Undefined, 0, << >>)
  /\ res' = [NoResult EXCEPT !.ret = "void"]
  /\ UNCHANGED <<secretVars, envConfig, page, pc, locals, loginAttempts, loginSuccessful,
                 attempts, error, trace, waits, pageVars, requests, uploadedFiles, blobs,
                 profileVars>>

\* a method of the service, called with a file that is or is not on the disk;
\* the request to storage, once sent, succeeds or fails
StorageCall(op, fileFound, succeeds) ==
  /\ blobServiceClient # "undefined"
  /\ ops < MaxCalls
  /\ ops' = ops + 1
  /\ top' = TopCall(op, "", Undefined, 0, [fileFound |-> fileFound])
  /\ LET check == Precheck(op, blobServiceClient, fileFound,
                           settings.azureBlobStorageConfiguration.shouldGenerateSasUri)
     IN  IF check = "return false"
         THEN res' = [NoResult EXCEPT !.ret = "false"] /\ UNCHANGED requests
         ELSE IF check # "none"
         THEN res' = [NoResult EXCEPT !.err = Error(check, "", << >>)]
              /\ UNCHANGED requests
         ELSE /\ requests' = Append(requests, op)
              /\ res' = IF succeeds
                        THEN [NoResult EXCEPT !.ret = IF op = "fileExists" THEN "true"
                                                      ELSE "void"]
                        ELSE IF op = "fileExists" THEN [NoResult EXCEPT !.ret = "false"]
                        ELSE [NoResult EXCEPT !.err = EngineError(op)]
  /\ UNCHANGED <<env, envFile, secretKeys, settings, secretCache, cmInstance,
                 cmConstructed, cmLoads, cmReloads, smInstance, smConstructed, got,
                 last, memo, cleared>>
  /\ UNCHANGED <<envConfig, page, pc, locals, loginAttempts, loginSuccessful,
                 attempts, error, trace, waits, pageVars, blobServiceClient, uploadedFiles,
                 blobs, profileVars>>

\* a file, and a directory with its items in the order readdirSync lists them
File(name) == [name |-> name, isDirectory |-> FALSE, items |-> << >>]

Directory(name, items) == [name |-> name, isDirectory |-> TRUE, items |-> items]

\* what test-results holds after a run
ArtifactTrees ==
  {<< >>,
   <<File("results.json")>>,
   <<Directory("login-chromium", <<File("trace.zip"), File("test-failed-1.png")>>),
     File("results.json")>>,
   <<Directory("login-chromium", <<File("trace.zip")>>),
     Directory("profile-chromium", <<File("trace.zip"), File("video.webm")>>)>>,
   <<File("trace.zip"), Directory("retry1", <<File("trace.zip")>>)>>}

\* path.basename(filePath)
Basename(filePath) == filePath[Len(filePath)]

\* uploadFile(filePath, containerName) on a container that holds container: the
\* blob is named by the file's basename, and upload replaces a blob of that name
UploadFile(container, filePath) ==
  [b \in DOMAIN container \cup {Basename(filePath)} |->
     IF b = Basename(filePath) THEN filePath ELSE container[b]]

\* uploadDirectoryRecursive(dirPath, containerName, uploadedFiles): done holds
\* uploadedFiles and the container as they are so far
RECURSIVE UploadDirectoryRecursive(_, _, _)
UploadDirectoryRecursive(dirPath, items, done) ==
  IF items = << >> THEN done
  ELSE LET item == Head(items)
           itemPath == Append(dirPath, item.name)
       IN  UploadDirectoryRecursive(dirPath, Tail(items),
             IF item.isDirectory
             THEN UploadDirectoryRecursive(itemPath, item.items, done)
             ELSE [blobs |-> UploadFile(done.blobs, itemPath),
                   uploadedFiles |-> Append(done.uploadedFiles, itemPath)])

\* uploadTestArtifacts(testRunId) into the run's container, which is new:
\* test-results is there or not, and storage accepts the requests or fails the first
UploadTestArtifacts(found, tree, succeeds) ==
  /\ blobServiceClient # "undefined"
  /\ ops < MaxCalls
  /\ ops' = ops + 1
  /\ top' = TopCall("uploadTestArtifacts", "", Undefined, 0, [fileFound |-> found])
  /\ LET done == UploadDirectoryRecursive(<<"test-results">>, tree,
                                          [blobs |-> EmptyMap, uploadedFiles |-> << >>])
         sent == found /\ blobServiceClient = "client"
     IN  /\ requests' = IF ~sent THEN requests
                        ELSE IF ~succeeds THEN Append(requests, "createIfNotExists")
                        ELSE Append(requests, "createIfNotExists")
                               \o [k \in 1..Len(done.uploadedFiles) |-> "upload"]
         /\ res' = IF ~found THEN [NoResult EXCEPT !.ret = "uploadedFiles"]
                   ELSE IF blobServiceClient = "null"
                   THEN [NoResult EXCEPT !.err = Error(NotInitialized, "", << >>)]
                   ELSE IF ~succeeds
                   THEN [NoResult EXCEPT !.err = EngineError("createIfNotExists")]
                   ELSE [NoResult EXCEPT !.ret = "uploadedFiles"]
         /\ uploadedFiles' = IF sent /\ succeeds THEN done.uploadedFiles ELSE << >>
         /\ blobs' = IF sent /\ succeeds THEN done.blobs ELSE EmptyMap
  /\ UNCHANGED <<env, envFile, secretKeys, settings, secretCache, cmInstance,
                 cmConstructed, cmLoads, cmReloads, smInstance, smConstructed, got,
                 last, memo, cleared>>
  /\ UNCHANGED <<envConfig, page, pc, locals, loginAttempts, loginSuccessful,
                 attempts, error, trace, waits, pageVars, blobServiceClient, profileVars>>

\* the configuration is loaded where AZURE_STORAGE_CONNECTION_STRING is not set,
\* is empty, or holds a connection string
InitStorage ==
  /\ env \in {Put(EmptyMap, BaseUrlVar, DefaultBaseUrl),
              Put(Put(EmptyMap, BaseUrlVar, DefaultBaseUrl),
                  ConfigVar.AZURE_STORAGE_CONNECTION_STRING, << >>),
              Put(Put(EmptyMap, BaseUrlVar, DefaultBaseUrl),
                  ConfigVar.AZURE_STORAGE_CONNECTION_STRING, <<"U","s","e","D","e","v","e","l","o","p","m","e","n","t","S","t","o","r","a","g","e","=","t","r","u","e">>)}
  /\ Loaded

NextStorage ==
  \/ NewAzureBlobStorageService
  \/ \E op \in StorageOps, fileFound \in BOOLEAN, succeeds \in BOOLEAN :
       StorageCall(op, fileFound, succeeds)
  \/ \E found \in BOOLEAN, tree \in ArtifactTrees, succeeds \in BOOLEAN :
       UploadTestArtifacts(found, tree, succeeds)

SpecStorage == InitStorage /\ [][NextStorage]_vars

(***************************************************************************)
(* The base URL of the page objects.  pages/LoginPage imports BasePage,    *)
(* which imports utils/env, and then ConfigurationManager: both singletons *)
(* are constructed when the module is loaded, each reading the .env file.  *)
(***************************************************************************)
\* import of pages/LoginPage: EnvironmentConfig copies process.env, then
\* ConfigurationManager loads the settings
ImportLoginPage ==
  /\ cmInstance = 0
  /\ envConfig' = DotenvConfig(env, envFile)
  /\ cmInstance' = cmConstructed + 1
  /\ cmConstructed' = cmConstructed + 1
  /\ LoadConfiguration
  /\ got' = [got EXCEPT !.cm = @ \cup {cmConstructed + 1}, !.cmCalls = @ + 1]
  /\ last' = [op |-> "ConfigurationManager.getInstance", email |-> << >>, ret |-> << >>,
              err |-> NoError]
  /\ UNCHANGED <<envFile, secretCache, cmReloads, smInstance, smConstructed, memo,
                 cleared, ops>>
  /\ UNCHANGED <<page, pc, top, locals, loginAttempts, loginSuccessful, attempts, error,
                 trace, waits, res, pageVars, storageVars, profileVars>>

\* EnvironmentConfig.getRequired(key): the value, or the error for a value that is
\* not set or empty
GetRequired(config, key) ==
  IF Truthy(config, key) THEN [ret |-> config[key], err |-> NoErr]
  ELSE [ret |-> << >>,
        err |-> Error("Required environment variable is not set: ", "", key)]

\* new LoginPage(page): the constructor of BasePage sets
\* this.baseUrl = envConfig.getBaseUrl(), which is getRequired('BASE_URL')
NewLoginPage ==
  /\ cmInstance # 0
  /\ ops < MaxOps
  /\ ops' = ops + 1
  /\ top' = TopCall("new LoginPage", "", Undefined, 0, << >>)
  /\ res' = [ret |-> GetRequired(envConfig, BaseUrlVar).ret,
             err |-> GetRequired(envConfig, BaseUrlVar).err, wait |-> "none"]
  /\ UNCHANGED <<env, envFile, secretKeys, settings, secretCache, cmInstance,
                 cmConstructed, cmLoads, cmReloads, smInstance, smConstructed, got,
                 last, memo, cleared>>
  /\ UNCHANGED <<envConfig, page, pc, locals, loginAttempts, loginSuccessful,
                 attempts, error, trace, waits, pageVars, storageVars, profileVars>>

\* process.env and the .env file before the modules are loaded: BASE_URL is not
\* set, is empty, or holds a URL
InitBasePage ==
  /\ env \in {EmptyMap, Put(EmptyMap, BaseUrlVar, << >>),
               Put(EmptyMap, BaseUrlVar, DefaultBaseUrl),
               Put(EmptyMap, BaseUrlVar, <<"h","t","t","p","s",":","/","/","x",".","i","o">>)}
  /\ envFile \in {EmptyMap, ConfigEnvFile}
  /\ Unloaded

NextBasePage ==
  \/ ImportLoginPage
  \/ SMGetInstance
  \/ NewLoginPage
  \/ Reload
  \/ \E v \in {<< >>, <<"h","t","t","p","s",":","/","/","y",".","i","o">>} : SetEnv(BaseUrlVar, v)
  \/ DeleteEnv(BaseUrlVar)

SpecBasePage == InitBasePage /\ [][NextBasePage]_vars

(***************************************************************************)
(* The profile tests on the one super-admin account.  Each worker has a    *)
(* browser of its own; the application holds the address list.  A page     *)
(* shows the list as the application held it when the page was loaded,     *)
(* with the changes made on the page since; after a change of its own the  *)
(* page may also have been rendered anew from the application's list.      *)
(***************************************************************************)
JoshLn == "215 Josh Ln, San Antonio, TX 78245, USA"

MainSt == "123 Main St, Austin, TX 78702, USA"

Step(op, address) == [op |-> op, address |-> address]

\* the three tests, as the steps they make after beforeEach has logged in
ProfileTest ==
  [management |->
     <<Step("open", ""), Step("initialAddressCount", ""),
       Step("enterAddress", JoshLn), Step("expectAddress", JoshLn),
       Step("expectCountPlusOne", ""),
       Step("enterAddress", JoshLn), Step("expectNotification", JoshLn),
       Step("expectCountPlusOne", ""),
       Step("reload", ""), Step("expectAddress", JoshLn),
       Step("delete", JoshLn), Step("expectDeleted", JoshLn),
       Step("expectInitialCount", "")>>,
   duplicate |->
     <<Step("open", ""), Step("enterAddress", MainSt), Step("enterAddress", MainSt),
       Step("expectNotification", MainSt), Step("delete", MainSt)>>,
   persist |->
     <<Step("open", ""), Step("enterAddress", MainSt), Step("expectAddress", MainSt),
       Step("reload", ""), Step("expectAddress", MainSt), Step("delete", MainSt)>>]

\* Playwright's workers that run tests of the file at the same time
ProfileWorkers == {1, 2}

\* getAddressCount(): the address values the page shows
GetAddressCount(view) == Cardinality(view)

\* verifyAddress(address): the address is on the page within the timeout
VerifyAddress(view, address) == address \in view

\* verifyAddressIsDeleted(address): the address is off the page within the timeout
VerifyAddressIsDeleted(view, address) == address \notin view

\* the worker's fresh state as its test starts
StartOf(test) ==
  [test |-> test, step |-> 1, view |-> {}, initial |-> 0, notified |-> "", failed |-> "none"]

\* two workers take two tests of the file
StartProfileTests(first, second) ==
  /\ profileTests = << >>
  /\ first # second
  /\ profileTests' = <<StartOf(first), StartOf(second)>>
  /\ UNCHANGED <<addresses, secretVars, loginVars, pageVars, storageVars>>

\* the test of worker w has ended: its steps are made, or an assertion failed
TestEnded(w) == profileTests[w].step > Len(ProfileTest[profileTests[w].test])

\* what the page shows after a change made on it: the list with the change, or
\* the application's list
Rendered(local, stored) == {local, stored}

\* the next step of the test of worker w
ProfileTestStep(w) ==
  /\ profileTests # << >>
  /\ ~TestEnded(w)
  /\ LET me == profileTests[w]
         st == ProfileTest[me.test][me.step]
         a == st.address
         Goes(next) == profileTests' = [profileTests EXCEPT ![w] = next]
         On == [me EXCEPT !.step = @ + 1]
         Expect(holds) ==
           /\ Goes(IF holds THEN On
                   ELSE [me EXCEPT !.failed = st.op,
                                   !.step = Len(ProfileTest[me.test]) + 1])
           /\ UNCHANGED addresses
     IN  CASE st.op \in {"open", "reload"} ->
                /\ Goes([On EXCEPT !.view = addresses])
                /\ UNCHANGED addresses
           [] st.op = "initialAddressCount" ->
                /\ Goes([On EXCEPT !.initial = GetAddressCount(me.view)])
                /\ UNCHANGED addresses
           [] st.op = "enterAddress" ->
                /\ addresses' = addresses \cup {a}
                /\ \E shown \in Rendered(IF a \in addresses THEN me.view
                                          ELSE me.view \cup {a}, addresses') :
                     Goes([On EXCEPT !.view = shown,
                                     !.notified = IF a \in addresses THEN a ELSE ""])
           [] st.op = "delete" ->
                IF a \in me.view
                THEN /\ addresses' = addresses \ {a}
                     /\ \E shown \in Rendered(me.view \ {a}, addresses') :
                          Goes([On EXCEPT !.view = shown])
                ELSE Expect(FALSE)
           [] st.op = "expectAddress" -> Expect(VerifyAddress(me.view, a))
           [] st.op = "expectDeleted" -> Expect(VerifyAddressIsDeleted(me.view, a))
           [] st.op = "expectNotification" -> Expect(me.notified = a)
           [] st.op = "expectCountPlusOne" ->
                Expect(GetAddressCount(me.view) = 1 + me.initial)
           [] st.op = "expectInitialCount" ->
                Expect(GetAddressCount(me.view) = me.initial)
  /\ UNCHANGED <<secretVars, loginVars, pageVars, storageVars>>

InitProfile == InitPages

NextProfile ==
  \/ \E first \in DOMAIN ProfileTest, second \in DOMAIN ProfileTest :
       StartProfileTests(first, second)
  \/ \E w \in ProfileWorkers : ProfileTestStep(w)

SpecProfile == InitProfile /\ [][NextProfile]_vars


(***************************************************************************)
(* Properties of the secret manager and of the singletons                  *)
(***************************************************************************)
RetrieveOps == {"retrievePasswordSync", "retrievePassword"}

\* the step is a retrieval (every retrieval counts as one operation)
RetrievalStep == ops' = ops + 1 /\ last'.op \in RetrieveOps

\* PASSWORD_<EMAIL> as documented: the email upper-cased, then every character
\* that is no letter and no digit replaced by '_'
DocumentedEmailEnvKey(email) ==
  PasswordPrefix \o
    [i \in 1..Len(email) |->
       IF UpperOfChar(email[i]) \in AlnumChars THEN UpperOfChar(email[i]) ELSE "_"]

\* the documented priority: the variable K, then PASSWORD_<EMAIL>, then K itself
DocumentedPassword(email, K, environ) ==
  CASE K \in DOMAIN environ /\ environ[K] # << >> -> environ[K]
    [] ~(K \in DOMAIN environ /\ environ[K] # << >>)
         /\ DocumentedEmailEnvKey(email) \in DOMAIN environ
         /\ environ[DocumentedEmailEnvKey(email)] # << >>
         -> environ[DocumentedEmailEnvKey(email)]
    [] OTHER -> K

C3_Singletons ==
  /\ cmConstructed <= 1
  /\ Cardinality(got.cm) <= 1
  /\ got.cmCalls > 0 => got.cm = {cmInstance} /\ cmInstance # 0
  /\ cmLoads = cmConstructed + cmReloads
  /\ smConstructed <= 1
  /\ Cardinality(got.sm) <= 1
  /\ got.smCalls > 0 => got.sm = {smInstance} /\ smInstance # 0

\* C3's case: getInstance() called again on both classes, and a reload()
C3_Witness ==
  /\ got.cmCalls >= 2
  /\ got.smCalls >= 2
  /\ cmReloads >= 1

\* C9: a retrieval for an email with no non-empty secret key and no cached
\* password fails with 'No secret key found for email' and changes neither the
\* cache nor the secret map
C9_MissingKeyFails ==
  [][(/\ RetrievalStep
      /\ ~(last'.email \in DOMAIN secretKeys /\ secretKeys[last'.email] # << >>)
      /\ last'.email \notin DOMAIN secretCache) =>
       /\ last'.err = NoSecretKeyError
       /\ secretCache' = secretCache
       /\ secretKeys' = secretKeys]_vars

\* C9's case: a retrieval has failed for an email whose secret key is the empty string
C9_Witness ==
  /\ last.op \in RetrieveOps
  /\ last.err = NoSecretKeyError
  /\ last.email \in DOMAIN secretKeys
  /\ secretKeys[last.email] = << >>

\* C10: on a cache miss for an email with secret key K the password is the value
\* of the variable K if set and non-empty, else the value of PASSWORD_<EMAIL> if
\* set and non-empty, else K; it is not empty and is cached under the email
C10_ResolutionPriority ==
  [][(/\ RetrievalStep
      /\ last'.email \notin DOMAIN secretCache
      /\ last'.email \in DOMAIN secretKeys
      /\ secretKeys[last'.email] # << >>) =>
       /\ last'.err = NoError
       /\ last'.ret = DocumentedPassword(last'.email, secretKeys[last'.email], env)
       /\ last'.ret # << >>
       /\ last'.email \in DOMAIN secretCache'
       /\ secretCache'[last'.email] = last'.ret]_vars

\* C10's case: the variable K is set but empty, and the password came from
\* PASSWORD_<EMAIL>
C10_Witness ==
  /\ last.op \in RetrieveOps
  /\ last.email = SuperAdminEmail
  /\ last.err = NoError
  /\ TestSuperAdminPassword \in DOMAIN env
  /\ env[TestSuperAdminPassword] = << >>
  /\ last.ret = <<"p","w","2">>
  /\ secretKeys[SuperAdminEmail] = TestSuperAdminPassword

(***************************************************************************)
(* Claims about the login helpers and the visibility checks                *)
(***************************************************************************)
\* the calls of a test that run a login routine directly or through loginAsUser
DirectLogins == DOMAIN UserTypeOf \cup {"loginAsUser"}

\* the login helper that ran last has returned normally
HelperReturned ==
  \/ top.op \in DirectLogins /\ pc = "done" /\ res.err.text = "none"
  \/ top.op = "retryLogin" /\ loginSuccessful

\* the login helper that ran last has thrown, and error is what it threw
HelperThrew ==
  /\ top.op \in DirectLogins \cup {"retryLogin"}
  /\ pc \in {"retryWait", "done"}
  /\ error.text # "none"

AllFailed(s) == \A i \in 1..Len(s) : s[i] = "failed"

\* retryLogin with maxAttempts >= 1 never makes more than maxAttempts attempts,
\* none after a successful one, and ends normally after a success or with its
\* own error after exactly maxAttempts failures
C1_Bounded ==
  (top.op = "retryLogin" /\ top.maxAttempts >= 1) =>
    /\ Len(attempts) <= top.maxAttempts
    /\ AllFailed(SubSeq(attempts, 1, Len(attempts) - 1))
    /\ pc = "done" =>
         \/ /\ res.err.text = "none"
            /\ attempts # << >>
            /\ attempts[Len(attempts)] = "ok"
         \/ /\ res.err.text = " login failed after "
            /\ res.err.who = top.userType
            /\ res.err.n = top.maxAttempts
            /\ Len(attempts) = top.maxAttempts
            /\ AllFailed(attempts)

\* C1: for maxAttempts >= 1 retryLogin terminates after at most maxAttempts
\* login attempts; it makes no attempt after the first successful one and then
\* returns normally; if all attempts fail it throws '<userType> login failed
\* after <maxAttempts> attempts' after exactly maxAttempts attempts
C1_RetryLoginTerminates ==
  /\ []C1_Bounded
  /\ (top.op = "retryLogin" /\ top.maxAttempts >= 1) ~> (pc = "done")

\* C1's case: three attempts allowed, the first fails, the second succeeds, and
\* retryLogin has returned
C1_Witness ==
  /\ top.op = "retryLogin"
  /\ top.maxAttempts = 3
  /\ pc = "done"
  /\ attempts = <<"failed", "ok">>
  /\ res.err.text = "none"

\* the customer id the caller's argument stands for
ExpectedCustomerId ==
  IF top.customerId = Undefined THEN <<"1","0","8","7">> ELSE top.customerId

\* C4: loginAsSuperAdmin returns normally only if the URL read after the wait
\* contains '/SuperAdmin/Home' and throws 'Super Admin login failed' if it does
\* not; loginAsAdmin(customerId) returns normally only if the page reached
\* <baseUrl>/Customer/CivicHome/<customerId>, '1087' when the argument is left
\* out, and throws 'Admin login failed for customer <customerId>' if the wait
\* for that URL fails
C4_PrivilegedLoginReachesDestination ==
  /\ (routine.name = "loginAsSuperAdmin" /\ HelperReturned) =>
       /\ currentUrl = page.url
       /\ Includes(currentUrl, <<"/","S","u","p","e","r","A","d","m","i","n","/","H","o","m","e">>)
  /\ (routine.name = "loginAsSuperAdmin" /\ HelperThrew /\ currentUrl # << >>) =>
       /\ ~Includes(currentUrl, <<"/","S","u","p","e","r","A","d","m","i","n","/","H","o","m","e">>)
       /\ error.text = "Super Admin login failed. Current URL: "
       /\ error.arg = currentUrl
  /\ (routine.name = "loginAsAdmin" /\ HelperReturned) =>
       page.url = CityzenBaseUrl(env) \o <<"/","C","u","s","t","o","m","e","r","/","C","i","v","i","c","H","o","m","e","/">> \o ExpectedCustomerId
  /\ (routine.name = "loginAsAdmin" /\ HelperThrew
        /\ trace # << >> /\ trace[Len(trace)] = "waitForURL") =>
       /\ page.url # CityzenBaseUrl(env) \o <<"/","C","u","s","t","o","m","e","r","/","C","i","v","i","c","H","o","m","e","/">> \o ExpectedCustomerId
       /\ error.text = "Admin login failed for customer "
       /\ error.arg = ExpectedCustomerId

\* C4's case: loginAsUser(ADMIN) without a customer id has returned
C4_Witness ==
  /\ top.op = "loginAsUser"
  /\ top.userType = "ADMIN"
  /\ top.customerId = Undefined
  /\ pc = "done"
  /\ res.err.text = "none"
  /\ page.url = CityzenBaseUrl(env) \o <<"/","C","u","s","t","o","m","e","r","/","C","i","v","i","c","H","o","m","e","/","1","0","8","7">>

\* verifyLoginSuccess has read the URL and the routine is over
VerifiedAndOver ==
  /\ routine.name \in DOMAIN RoleOf
  /\ currentUrl # << >>
  /\ HelperReturned \/ HelperThrew

\* C5 as amended: the four routines return normally only if the URL read at
\* verification lacks '/Account/Login' and no error message is visible; when
\* the read of the page title succeeds they throw '<role> login failed - still
\* on login page' if the URL contains '/Account/Login' and otherwise, if an
\* error message is visible, '<role> login failed with error: <message>',
\* unless reading the message's text fails; a failed read propagates
C5_VerifyLoginSuccess ==
  /\ (routine.name \in DOMAIN RoleOf /\ HelperReturned) =>
       /\ ~Includes(currentUrl, <<"/","A","c","c","o","u","n","t","/","L","o","g","i","n">>)
       /\ ~hasError
       /\ ~page.errorShown
  /\ (VerifiedAndOver /\ HelperThrew) =>
       \/ error = EngineError("title")
       \/ /\ Includes(currentUrl, <<"/","A","c","c","o","u","n","t","/","L","o","g","i","n">>)
          /\ error.text = " login failed - still on login page"
          /\ error.who = RoleOf[routine.name]
       \/ /\ ~Includes(currentUrl, <<"/","A","c","c","o","u","n","t","/","L","o","g","i","n">>)
          /\ hasError
          /\ \/ error = EngineError("textContent")
             \/ /\ error.text = " login failed with error: "
                /\ error.who = RoleOf[routine.name]
                /\ error.arg = IF page.errorShown THEN ErrorText ELSE << >>

\* C5 as stated: normal return only with the URL off the login page and no
\* error visible; the URL on the login page gives '<role> login failed - still
\* on login page', a visible error '<role> login failed with error: <message>'
C5_AsStated ==
  /\ (routine.name \in DOMAIN RoleOf /\ HelperReturned) =>
       /\ ~Includes(currentUrl, <<"/","A","c","c","o","u","n","t","/","L","o","g","i","n">>)
       /\ ~page.errorShown
  /\ (VerifiedAndOver /\ Includes(currentUrl, <<"/","A","c","c","o","u","n","t","/","L","o","g","i","n">>)) =>
       /\ error.text = " login failed - still on login page"
       /\ error.who = RoleOf[routine.name]
  /\ (VerifiedAndOver /\ ~Includes(currentUrl, <<"/","A","c","c","o","u","n","t","/","L","o","g","i","n">>) /\ page.errorShown) =>
       /\ error.text = " login failed with error: "
       /\ error.who = RoleOf[routine.name]

\* C5's case: loginAsEditor found the error message and threw with its text
C5_Witness ==
  /\ top.op = "loginAsEditor"
  /\ pc = "done"
  /\ hasError
  /\ res.err.text = " login failed with error: "
  /\ res.err.who = "Editor"
  /\ res.err.arg = ErrorText

\* the routine the claim names for each user type
DocumentedRoutine ==
  [SUPER_ADMIN |-> "loginAsSuperAdmin", ADMIN |-> "loginAsAdmin",
   DATA_VIEWER |-> "loginAsDataViewer", EDITOR |-> "loginAsEditor",
   NONE |-> "loginAsNone", PUBLISHER |-> "loginAsPublisher"]

\* C6: loginAsUser(userType, customerId) runs the login routine of that type,
\* once, loginAsAdmin with the customer id; getAllUserTypes() gives exactly the
\* six types; a value outside the enum gives 'Unsupported user type' and no
\* browser action
C6_LoginAsUserDispatches ==
  /\ Len(GetAllUserTypes) = 6
  /\ Range(GetAllUserTypes) = DOMAIN DocumentedRoutine
  /\ top.op = "loginAsUser" =>
       IF top.userType \in DOMAIN DocumentedRoutine
       THEN /\ Len(logins) <= 1
            /\ pc # "switch" =>
                 logins = << [name |-> DocumentedRoutine[top.userType],
                              customerId |-> IF top.userType = "ADMIN"
                                             THEN ExpectedCustomerId
                                             ELSE Undefined] >>
            /\ logins # << >> => routine = logins[1]
       ELSE /\ logins = << >>
            /\ trace = << >>
            /\ pc = "done" =>
                 /\ res.err.text = "Unsupported user type: "
                 /\ res.err.who = top.userType

\* C6's case: loginAsUser(EDITOR) ran loginAsEditor to its end
C6_Witness ==
  /\ top.op = "loginAsUser"
  /\ top.userType = "EDITOR"
  /\ pc = "done"
  /\ res.err.text = "none"
  /\ logins = << [name |-> "loginAsEditor", customerId |-> Undefined] >>

\* C7: for each user type whose *_EMAIL variable is unset or empty,
\* getUserEmails() gives a non-empty email that has a secret key in
\* DEFAULT_APP_SETTINGS, and getUserCredentials throws neither 'Email not found
\* for user type' nor 'No secret key found for email'
C7_DefaultCredentialsResolve ==
  \A t \in Range(UserType) :
    ~Truthy(envConfig, EmailVar[t]) =>
      LET email == GetUserEmails(envConfig)[t]
      IN  /\ email # << >>
          /\ Truthy(DefaultSecretKeys, email)
          /\ Truthy(secretKeys, email)
          /\ (routine.name \in DOMAIN UserTypeOf /\ UserTypeOf[routine.name] = t) =>
               /\ error.text # "Email not found for user type: "
               /\ error.text # "No secret key found for email"
               /\ "getUserCredentials" \in Range(trace) =>
                    credentials.email = email /\ credentials.password # << >>

\* C7's case: DATA_VIEWER_EMAIL is set but empty and getUserCredentials has
\* given loginAsDataViewer the default account
C7_Witness ==
  /\ EmailVar.DATA_VIEWER \in DOMAIN envConfig
  /\ envConfig[EmailVar.DATA_VIEWER] = << >>
  /\ routine.name = "loginAsDataViewer"
  /\ pc = "goto"
  /\ credentials.email = <<"d","a","t","a","v","i","e","w","e","r","_","t","e","s","t","@","p","u","b","l","i","c","i","n","p","u","t",".","o","r","g">>
  /\ credentials.password = <<"T","e","s","t","D","a","t","a","V","i","e","w","e","r","P","a","s","s","w","o","r","d">>

\* the answer a check built on isElementVisible gives for a wait's outcome
ExpectedAnswer ==
  IF top.op = "verifyCreateNewContactListModalClosed"
  THEN BoolString(res.wait # "visible")
  ELSE BoolString(res.wait = "visible")

\* C8 as amended: isElementVisible returns true if the element becomes visible
\* within the wait and false when the wait times out or fails, and never
\* throws; neither do the checks that return its answer or the negation;
\* verifyTabOpen does the same for the five tab names and throws 'Unknown tab
\* name: <tabName>' for any other name
C8_VisibilityChecks ==
  /\ (top.op \in VerifyOps /\ pc = "done") =>
       /\ res.err.text = "none"
       /\ res.wait \in WaitOutcomes
       /\ res.ret = ExpectedAnswer
  /\ (top.op = "verifyTabOpen" /\ pc = "done") =>
       IF ToLowerCase(top.arg) \in
            {<<"e","m","a","i","l">>, <<"t","e","x","t">>, <<"p","a","r","t","i","c","i","p","a","n","t","s">>, <<"c","o","m","m","e","n","t","s">>, <<"s","u","b","s","c","r","i","b","e","r","s">>}
       THEN /\ res.err.text = "none"
            /\ res.ret = ExpectedAnswer
       ELSE /\ res.err.text = "Unknown tab name: "
            /\ res.err.arg = top.arg

\* C8 as stated: isElementVisible and every check built on it answer through
\* the boolean and never throw
C8_AsStated ==
  (top.op \in VerifyOps \cup {"verifyTabOpen"} /\ pc = "done") =>
    /\ res.err.text = "none"
    /\ res.ret = ExpectedAnswer

\* C8's case: the wait of isElementVisible failed and the answer is false
C8_Witness ==
  /\ top.op = "isElementVisible"
  /\ pc = "done"
  /\ res.wait = "failed"
  /\ res.ret = "false"
  /\ res.err.text = "none"

(***************************************************************************)
(* Properties of the configuration                                         *)
(***************************************************************************)
\* the variable is set: process.env holds a non-empty value for it
Configured(name) == name \in DOMAIN env /\ env[name] # << >>

\* the settings are those the environment and the declared defaults give; a
\* numeric variable is read as the decimal number it writes
SettingsAsDocumented ==
  LET Text(name, default) == IF Configured(name) THEN env[name] ELSE default
      IsNumeral(s) == s # << >> /\ \A j \in 1..Len(s) : s[j] \in DigitChars
      Numeric(value, name, default) ==
        IF Configured(name)
        THEN IsNumeral(env[name]) => value = Num(DecimalValue(env[name]))
        ELSE value = Num(default)
      b == settings.browserSettings
      t == settings.testSettings
  IN  /\ settings.cityzenSettings.baseUrl = Text(BaseUrlVar, <<"h","t","t","p","s",":","/","/","p","u","b","l","i","c","i","n","p","u","t",".","c","o","m">>)
      /\ Numeric(b.timeout, ConfigVar.TIMEOUT, 60000)
      /\ Numeric(t.retries, ConfigVar.RETRIES, 2)
      /\ Numeric(t.workers, ConfigVar.WORKERS, 4)
      /\ b.browser = Text(ConfigVar.BROWSER, DefaultAppSettings.browserSettings.browser)
      /\ t.screenshotBehavior =
           Text(ConfigVar.SCREENSHOT_BEHAVIOR, DefaultAppSettings.testSettings.screenshotBehavior)
      /\ t.screenshotContainer =
           Text(ConfigVar.SCREENSHOT_CONTAINER, DefaultAppSettings.testSettings.screenshotContainer)
      /\ b.headless = IF ConfigVar.HEADLESS \in DOMAIN env
                      THEN env[ConfigVar.HEADLESS] = <<"t","r","u","e">>
                      ELSE TRUE
      /\ GetBaseUrl(settings) = GetSetting(settings, <<"cityzenSettings", "baseUrl">>)

\* C11: the first load of the configuration leaves every setting at the value of
\* its environment variable when that variable is set (to a non-empty value) and
\* at the declared default otherwise (baseUrl 'https://publicinput.com', timeout
\* 60000, retries 2, workers 4, and likewise browser, screenshotBehavior and
\* screenshotContainer); headless is (HEADLESS = 'true') whenever HEADLESS is
\* defined, even empty, and true when it is not; and getBaseUrl() is
\* getSetting('cityzenSettings.baseUrl')
C11_SettingsFromEnvironment ==
  [][cmLoads = 0 /\ cmLoads' = 1 => SettingsAsDocumented']_vars

\* the configuration was loaded once where TIMEOUT and RETRIES are set, BASE_URL
\* is set empty, WORKERS is not set and HEADLESS is defined but empty
C11_Witness ==
  /\ cmLoads = 1
  /\ Configured(ConfigVar.TIMEOUT) /\ settings.browserSettings.timeout = Num(30)
  /\ Configured(ConfigVar.RETRIES) /\ settings.testSettings.retries = Num(0)
  /\ BaseUrlVar \in DOMAIN env /\ env[BaseUrlVar] = << >>
  /\ settings.cityzenSettings.baseUrl = DefaultBaseUrl
  /\ ConfigVar.WORKERS \notin DOMAIN env /\ settings.testSettings.workers = Num(4)
  /\ ConfigVar.HEADLESS \in DOMAIN env /\ env[ConfigVar.HEADLESS] = << >>
  /\ ~settings.browserSettings.headless

(***************************************************************************)
(* Properties of the page objects' counts, waits, clicks and tabs          *)
(***************************************************************************)
\* the call op of a page object of the class has finished
PageCallDone(class, op) ==
  pc = "done" /\ top.op = op /\ top.arg.class = class

\* the text of the element a count method of SegmentationPage reads
CountTextRead ==
  LET selector == IF top.op = "getPotentialSegmentMembersCount"
                  THEN PotentialSegmentMembersCount.SegmentationPage
                  ELSE TotalCountElement.SegmentationPage
      text == TextContent(counts, selector)
  IN  IF text = Undefined THEN << >> ELSE text

\* C12: getTotalCountBelowMembersTable() and getPotentialSegmentMembersCount() of
\* SegmentationPage never throw and return a non-negative integer: the number the
\* decimal digits of the element's text write once every other character is
\* removed, and 0 when the text has no digit or the element could not be read
C12_CountsAreNonNegativeIntegers ==
  \A op \in {"getTotalCountBelowMembersTable", "getPotentialSegmentMembersCount"} :
    PageCallDone("SegmentationPage", op) =>
      LET digits == SelectSeq(CountTextRead, LAMBDA c : c \in DigitChars)
          readFailed == error.text # "none"
      IN  /\ res.err.text = "none"
          /\ ~res.ret.nan
          /\ res.ret.n \in Nat
          /\ res.ret.n = IF readFailed \/ digits = << >> THEN 0
                         ELSE DecimalValue(digits)

\* a count was read from the text '1,204'
C12_Witness ==
  /\ PageCallDone("SegmentationPage", "getPotentialSegmentMembersCount")
  /\ CountTextRead = <<"1",",","2","0","4">>
  /\ error.text = "none"
  /\ res.ret = Num(1204)

\* the count a text displays: its decimal digits
DisplayedCount(text) ==
  IF text = Undefined THEN << >> ELSE SelectSeq(text, LAMBDA c : c \in DigitChars)

\* C13: verifyTotalCountEqualsPotentialCount(), of SegmentationPage and of CRMPage,
\* returns true exactly when the total count the page shows below the members
\* table equals the potential segment members count it shows, and false when the
\* two displayed counts differ
C13_AsStated ==
  \A class \in {"SegmentationPage", "CRMPage"} :
    PageCallDone(class, "verifyTotalCountEqualsPotentialCount") =>
      /\ res.err.text = "none"
      /\ res.ret = BoolString(DisplayedCount(counts.total) = DisplayedCount(counts.potential))

\* the calls of the engine that are c, in their order
CallsOf(c) == SelectSeq(trace, LAMBDA e : e.call = c)

\* the walk through the tabs as documented: each tab clicked, then verified
DocumentedWalk ==
  [k \in 1..10 |->
     [call |-> IF k % 2 = 1 THEN "click" ELSE "waitForSelector",
      target |-> <<<<"E","m","a","i","l">>, <<"T","e","x","t">>, <<"P","a","r","t","i","c","i","p","a","n","t","s">>, <<"C","o","m","m","e","n","t","s">>,
                   <<"S","u","b","s","c","r","i","b","e","r","s">>>>[(k + 1) \div 2]]]

\* C14: verifyAllProjectTabsLoading() visits the tabs in the order Email, Text,
\* Participants, Comments, Subscribers, each tab clicked before it is verified; it
\* returns true exactly when all five tabs verify open, and at the first tab that
\* does not verify open it returns false with no click on a later tab
C14_TabsVisitedInOrder ==
  top.op = "verifyAllProjectTabsLoading" =>
    LET visits == SelectSeq(trace, LAMBDA e :
                    \/ e.call = "click" /\ e.outcome = "ok"
                    \/ e.call = "waitForSelector")
        verified == CallsOf("waitForSelector")
        closed == {k \in 1..Len(trace) :
                     trace[k].call = "waitForSelector" /\ trace[k].outcome # "visible"}
    IN  /\ Len(visits) <= 10
        /\ \A k \in 1..Len(visits) :
             /\ visits[k].call = DocumentedWalk[k].call
             /\ visits[k].target = DocumentedWalk[k].target
        /\ \A k \in 1..Len(trace) :
             trace[k].call \in {"click", "waitForClickableElement"} =>
               trace[k].target = DocumentedWalk[Len(SelectSeq(SubSeq(trace, 1, k),
                   LAMBDA e : e.call = "waitForSelector")) * 2 + 1].target
        /\ (pc = "done" /\ res.err.text = "none") =>
             /\ res.ret = "true" <=>
                  /\ Len(verified) = 5
                  /\ \A k \in 1..5 : verified[k].outcome = "visible"
             /\ res.ret = "false" <=> closed # {}
        /\ closed # {} =>
             /\ closed = {Len(trace)}
             /\ pc = "done" /\ res.ret = "false"

\* the third tab did not verify open after a click that had to be retried
C14_Witness ==
  /\ PageCallDone("ProjectAdminPage", "verifyAllProjectTabsLoading")
  /\ res.ret = "false"
  /\ Len(CallsOf("waitForSelector")) = 3
  /\ Len(CallsOf("click")) = 4

\* C15: waitForSeconds(seconds) of CRMPage, as of ProjectsPage and of
\* SegmentationPage, issues one timed wait of seconds x 1000 ms and nothing else
C15_AsStated ==
  \A class \in {"CRMPage", "ProjectsPage", "SegmentationPage"} :
    PageCallDone(class, "waitForSeconds") =>
      /\ res.err.text = "none"
      /\ Len(trace) = 1
      /\ trace[1].call = "waitForTimeout"
      /\ trace[1].ms = top.arg.seconds * 1000

\* C16: clickElement(page, selector, retries) with retries >= 1 (3 when it is left
\* out) makes at most retries attempts, each a wait-for-clickable followed by a
\* click; it returns at the first successful attempt and makes no further one; a
\* failed attempt that is not the last is followed by a wait of 1000 ms, and the
\* retries-th failed attempt by the throw of its own error, with no wait
C16_ClickElementRetries ==
  (top.op = "clickElement" /\ top.arg.retries >= 1) =>
    LET failed == {k \in 1..Len(trace) : trace[k].outcome = "failed"}
        FailuresUpTo(k) == Cardinality({j \in failed : j <= k})
    IN  /\ top.arg.defaulted => top.arg.retries = 3
        /\ Len(CallsOf("waitForClickableElement")) <= top.arg.retries
        /\ \A k \in 1..Len(trace) :
             /\ trace[k].call = "click" =>
                  /\ k > 1
                  /\ trace[k - 1].call = "waitForClickableElement"
                  /\ trace[k - 1].outcome = "ok"
             /\ (trace[k].call = "click" /\ trace[k].outcome = "ok") =>
                  /\ k = Len(trace)
                  /\ pc = "done" /\ res.err.text = "none" /\ res.ret = "void"
             /\ (k \in failed /\ FailuresUpTo(k) < top.arg.retries) =>
                  IF k = Len(trace) THEN pc = "clickWait"
                  ELSE trace[k + 1].call = "waitForTimeout" /\ trace[k + 1].ms = 1000
             /\ (k \in failed /\ FailuresUpTo(k) >= top.arg.retries) =>
                  /\ FailuresUpTo(k) = top.arg.retries
                  /\ k = Len(trace)
                  /\ pc = "done" /\ res.err = EngineError(trace[k].call)
             /\ trace[k].call = "waitForTimeout" => (k > 1 /\ k - 1 \in failed)
        /\ pc = "done" =>
             \/ res.err.text = "none" /\ trace # << >> /\ trace[Len(trace)].call = "click"
             \/ res.err.text # "none" /\ Cardinality(failed) = top.arg.retries

\* the default of three attempts: two failed, each followed by a wait, the third
\* clicked
C16_Witness ==
  /\ PageCallDone("TestHelpers", "clickElement")
  /\ top.arg.defaulted
  /\ res.ret = "void"
  /\ Len(CallsOf("waitForClickableElement")) = 3
  /\ Len(CallsOf("waitForTimeout")) = 2

(***************************************************************************)
(* Properties of the storage service                                       *)
(***************************************************************************)
\* C17: when no connection string is configured (the default ''), constructing
\* AzureBlobStorageService does not throw and leaves the client uninitialized;
\* from then on fileExists returns false, and uploadFile, downloadFile, deleteFile,
\* listFiles, generateSasUri and getFileMetadata fail with 'Azure Blob Storage
\* client not initialized', whether or not the file to upload exists, and storage
\* is never contacted
C17_NoConnectionString ==
  (settings.azureBlobStorageConfiguration.connectionString = << >>
   /\ blobServiceClient # "undefined") =>
    /\ blobServiceClient = "null"
    /\ requests = << >>
    /\ top.op = "new AzureBlobStorageService" => res.err.text = "none"
    /\ top.op = "fileExists" => (res.err.text = "none" /\ res.ret = "false")
    /\ top.op \in StorageOps \ {"fileExists"} =>
         res.err.text = "Azure Blob Storage client not initialized"

\* without a connection string, a file that is not on the disk was to be uploaded
C17_Witness ==
  /\ settings.azureBlobStorageConfiguration.connectionString = << >>
  /\ blobServiceClient = "null"
  /\ top.op = "uploadFile" /\ ~top.arg.fileFound
  /\ res.err.text = NotInitialized
  /\ ops = 2

(***************************************************************************)
(* Properties of the retry loops                                           *)
(***************************************************************************)
\* the waits a retry loop has made, given its attempts: one after each failed
\* attempt but the last, none while a wait is due or after the loop has ended
WaitsBetweenAttempts ==
  Len(waits) = IF attempts = << >> THEN 0
               ELSE IF pc = "while" /\ attempts[Len(attempts)] = "failed"
               THEN Len(attempts)
               ELSE Len(attempts) - 1

\* C18: in retryLogin each failed attempt that is not the last is followed by
\* exactly one wait of 2000 ms before the next attempt starts; no wait follows a
\* successful attempt or the last failed one, whose error is thrown at once; the
\* delay is the same for every retry
C18_RetryDelayBetweenAttempts ==
  top.op = "retryLogin" =>
    /\ WaitsBetweenAttempts
    /\ \A k \in 1..Len(waits) : waits[k] = 2000
    /\ (pc = "done" /\ attempts # << >>) => Len(waits) = Len(attempts) - 1

\* three attempts failed: two waits, and the error
C18_Witness ==
  /\ top.op = "retryLogin"
  /\ pc = "done"
  /\ attempts = <<"failed", "failed", "failed">>
  /\ res.err.text = " login failed after "
  /\ waits = <<2000, 2000>>

\* what a retry loop does is fixed by the user type, the customer id, maxAttempts
\* and the attempts' outcomes, whichever page object it belongs to: the routine
\* each attempt enters, the waits, and the outcome; the loop of the profile tests
\* names profileWho in its error
RetryLoopsAgree(profileWho) ==
  top.op \in RetryLoops =>
    LET known == top.userType \in DOMAIN DocumentedRoutine
        expected == [name |-> DocumentedRoutine[top.userType],
                     customerId |-> IF top.userType = "ADMIN" THEN ExpectedCustomerId
                                    ELSE Undefined]
    IN  /\ \A k \in 1..Len(logins) : known /\ logins[k] = expected
        /\ Len(logins) = IF ~known THEN 0
                         ELSE IF pc = "switch" THEN Len(attempts) - 1
                         ELSE Len(attempts)
        /\ WaitsBetweenAttempts
        /\ \A k \in 1..Len(waits) : waits[k] = 2000
        /\ pc = "done" =>
             IF attempts = << >> \/ attempts[Len(attempts)] = "ok"
             THEN res.err.text = "none" /\ res.ret = "void"
             ELSE res.err = [text |-> " login failed after ",
                             who |-> IF top.op = "beforeEach" THEN profileWho
                                     ELSE top.userType,
                             arg |-> << >>, n |-> top.maxAttempts,
                             cause |-> error.text]

\* C19 as stated: the retryLogin methods of CRMPage, ProjectAdminPage and
\* SegmentationPage make the same login calls and waits and have the same
\* outcome, and so does the loop of the profile tests, which is
\* retryLogin(SUPER_ADMIN, undefined, 2), thrown message included
C19_AsStated == RetryLoopsAgree("SUPER_ADMIN")

\* C19: the retryLogin methods of CRMPage, ProjectAdminPage and SegmentationPage
\* are equivalent: the same login calls, waits and outcome for every user type,
\* customer id, maxAttempts and pattern of failures; the loop of the profile tests
\* makes the attempts and waits of retryLogin(SUPER_ADMIN, undefined, 2) and
\* returns in the same cases, but throws 'Profile test super admin login failed
\* after 2 attempts' where retryLogin throws 'SUPER_ADMIN login failed after 2
\* attempts'
C19_RetryLoginsEquivalent == RetryLoopsAgree("Profile test super admin")

\* the loop of the profile tests has thrown after two failed attempts
C19_Witness ==
  /\ top.op = "beforeEach"
  /\ pc = "done"
  /\ attempts = <<"failed", "failed">>
  /\ logins = <<[name |-> "loginAsSuperAdmin", customerId |-> Undefined],
                [name |-> "loginAsSuperAdmin", customerId |-> Undefined]>>
  /\ res.err.who = "Profile test super admin"

(***************************************************************************)
(* retrievePassword and retrievePasswordSync                               *)
(***************************************************************************)
\* the last operation was a retrieval that returned a password
PasswordRetrieved ==
  last.op \in {"retrievePassword", "retrievePasswordSync"} /\ last.err = NoError

\* C20: from the same cache, secret map and environment retrievePassword and
\* retrievePasswordSync give the same outcome for every email, the same password
\* or the same error, and leave the same cache; the cache is one, so the password
\* either of them has just cached is what both return next, from the cache
C20_SyncEqualsAsync ==
  Ready =>
    /\ \A e \in OpEmails :
         RetrievePasswordResult(e, secretCache, secretKeys, env)
           = RetrievePasswordSyncResult(e, secretCache, secretKeys, env)
    /\ PasswordRetrieved =>
         /\ last.email \in DOMAIN secretCache
         /\ RetrievePasswordSyncResult(last.email, secretCache, secretKeys, env)
              = [ret |-> last.ret, err |-> NoError, cache |-> secretCache]
         /\ RetrievePasswordResult(last.email, secretCache, secretKeys, env)
              = [ret |-> last.ret, err |-> NoError, cache |-> secretCache]

\* retrievePassword has cached a password of the environment, and for another
\* email both versions would throw
C20_Witness ==
  /\ Ready
  /\ last.op = "retrievePassword"
  /\ last.err = NoError
  /\ last.ret # secretKeys[last.email]
  /\ secretCache[last.email] = last.ret
  /\ \E e \in OpEmails :
       RetrievePasswordSyncResult(e, secretCache, secretKeys, env).err = NoSecretKeyError

(***************************************************************************)
(* Credentials before the login form                                       *)
(***************************************************************************)
\* the calls of a login routine up to the click on the sign-in button
DocumentedLoginOrder ==
  <<"getUserCredentials", "goto", "waitForLoadState", "fill(emailInput)",
    "fill(passwordInput)", "click">>

\* the calls of the success checks
SuccessCheckCalls ==
  {"waitForTimeout", "waitForURL", "title", "waitForSelector", "textContent"}

\* the errors of getUserCredentials
ResolutionErrors == {"Email not found for user type: ", NoSecretKeyError}

\* C21: every login routine resolves the credentials first; when that fails, for
\* want of an email or of a secret key, it throws with no browser action issued;
\* when it succeeds the browser is driven in the order navigate to the login page,
\* fill email, fill password, click sign-in, and the success check comes after
C21_CredentialsBeforeForm ==
  routine # NoRoutine =>
    /\ \A k \in 1..Len(trace) :
         IF k <= Len(DocumentedLoginOrder) THEN trace[k] = DocumentedLoginOrder[k]
         ELSE trace[k] \in SuccessCheckCalls
    /\ Len(trace) > 1 => credentials # NoCredentials
    /\ error.text \in ResolutionErrors =>
         /\ trace = <<"getUserCredentials">>
         /\ credentials = NoCredentials

\* a routine threw for want of a secret key, the browser untouched
C21_Witness ==
  /\ pc = "done"
  /\ top.op \in DOMAIN UserTypeOf
  /\ res.err.text = NoSecretKeyError
  /\ trace = <<"getUserCredentials">>
  /\ page.url = BlankUrl

(***************************************************************************)
(* Accounts of the secret map                                              *)
(***************************************************************************)
\* the step is a call of op
CallOf(op) == last'.op = op /\ ops' = ops + 1

\* the secret key and the cached password of e are what they were
AccountUnchanged(e) ==
  /\ (e \in DOMAIN secretKeys') = (e \in DOMAIN secretKeys)
  /\ e \in DOMAIN secretKeys => secretKeys'[e] = secretKeys[e]
  /\ (e \in DOMAIN secretCache') = (e \in DOMAIN secretCache)
  /\ e \in DOMAIN secretCache => secretCache'[e] = secretCache[e]

\* C22: after removeAccount(email), hasAccount(email) is false, getAccountInfo(email)
\* is null and retrievePasswordSync(email) throws 'No secret key found', a
\* password cached before or not; the keys and cached passwords of the other
\* emails are unchanged; after addAccount(email, key) with a non-empty key,
\* hasAccount(email) is true
C22_RemoveAccountForgets ==
  [][/\ CallOf("removeAccount") =>
          /\ ~HasAccount(last'.email, secretKeys')
          /\ GetAccountInfo(last'.email, secretKeys', env') = Null
          /\ RetrievePasswordSyncResult(last'.email, secretCache', secretKeys', env')
               = [ret |-> << >>, err |-> NoSecretKeyError, cache |-> secretCache']
          /\ \A e \in (DOMAIN secretKeys \cup DOMAIN secretCache \cup OpEmails)
                        \ {last'.email} : AccountUnchanged(e)
     /\ (CallOf("addAccount") /\ secretKeys'[last'.email] # << >>) =>
          HasAccount(last'.email, secretKeys')]_vars

\* removeAccount has dropped the cached password of an account
C22_Witness ==
  /\ last.op = "removeAccount"
  /\ last.ret # << >>
  /\ last.email \notin DOMAIN secretCache
  /\ ~HasAccount(last.email, secretKeys)
  /\ \E e \in DOMAIN secretKeys : e # last.email

(***************************************************************************)
(* retryLogin and the attempts it is allowed                               *)
(***************************************************************************)
\* C23: whatever maxAttempts is, zero and negative values included, retryLogin
\* returns normally only after a login attempt that was made and succeeded
C23_AsStated ==
  (top.op = "retryLogin" /\ pc = "done" /\ res.err.text = "none") =>
    /\ attempts # << >>
    /\ attempts[Len(attempts)] = "ok"
    /\ logins # << >>

(***************************************************************************)
(* The secret key of an email and its password                             *)
(***************************************************************************)
\* the last call gave the email a secret key other than the one it had
SecretKeyChanged ==
  /\ last.op = "addAccount"
  /\ Truthy(secretKeys, last.email)
  /\ last.ret # secretKeys[last.email]

\* C24: the password returned for an email is the one of its current secret key:
\* once addAccount(email, newKey) has changed the key, the next
\* retrievePasswordSync(email) returns the password resolved through newKey,
\* a password retrieved before or not
C24_AsStated ==
  [][(SecretKeyChanged /\ CallOf("retrievePasswordSync") /\ last'.email = last.email) =>
       /\ last'.err = NoError
       /\ last'.ret = ResolvePassword(last.email, secretKeys[last.email], env)]_vars

(***************************************************************************)
(* reload() and the declared defaults                                      *)
(***************************************************************************)
\* C25: loading never modifies DEFAULT_APP_SETTINGS, so reload() yields the
\* settings the declared defaults and the current environment determine: a
\* setting whose variable is no longer set has its declared default again, and
\* the accounts added with addAccount are no part of the defaults
C25_AsStated ==
  [][CallOf("reload") =>
       /\ settings' = BuildSettingsFromEnvironment(DefaultAppSettings, env')
       /\ secretKeys' = LoadUserAccountSecrets(DefaultSecretKeys, env')]_vars

(***************************************************************************)
(* hasPassword and the resolution of the password                          *)
(***************************************************************************)
\* C26: for every email with a secret key, in every environment, variables set
\* to the empty string included, getAccountInfo(email).hasPassword is true exactly
\* when an uncached retrievePasswordSync(email) takes the password from a
\* variable of the environment, and false exactly when it falls back to the
\* secret key
C26_AsStated ==
  Ready =>
    \A e \in DOMAIN secretKeys :
      Truthy(secretKeys, e) =>
        /\ GetAccountInfo(e, secretKeys, env).hasPassword
             = BoolString(PasswordFromEnvironment(e, secretKeys[e], env))
        /\ GetAccountInfo(e, secretKeys, env).hasPassword = "false" =>
             RetrievePasswordSyncResult(e, EmptyMap, secretKeys, env).ret = secretKeys[e]

(***************************************************************************)
(* Counts that could not be read                                           *)
(***************************************************************************)
\* a read of a count has failed in the call
CountReadFailed == \E k \in 1..Len(trace) : trace[k].outcome = "failed"

\* C27: verifyTotalCountEqualsPotentialCount() of SegmentationPage reports
\* consistency only if both counts were read from the page: when the read of the
\* total count or of the potential count fails, the result is not true
C27_AsStated ==
  (PageCallDone("SegmentationPage", "verifyTotalCountEqualsPotentialCount")
     /\ CountReadFailed) =>
    res.ret # "true"

(***************************************************************************)
(* The artifacts uploadTestArtifacts reports                               *)
(***************************************************************************)
\* C28: uploadTestArtifacts stores every artifact it reports: each path of the
\* returned uploadedFiles has a blob of its own in the run's container, so no
\* uploaded file overwrites another and as many blobs are written as the list
\* is long
C28_AsStated ==
  (top.op = "uploadTestArtifacts" /\ res.err.text = "none") =>
    /\ \A k \in 1..Len(uploadedFiles) :
         /\ Basename(uploadedFiles[k]) \in DOMAIN blobs
         /\ blobs[Basename(uploadedFiles[k])] = uploadedFiles[k]
    /\ Cardinality(DOMAIN blobs) = Len(uploadedFiles)

(***************************************************************************)
(* One base URL for all page objects                                       *)
(***************************************************************************)
\* C29: the page objects agree on one base URL in every environment: the
\* baseUrl BasePage holds is ConfigurationManager.getBaseUrl(), the URL LoginPage
\* and ProfilePage navigate under; when BASE_URL is not set both are the default
\* 'https://publicinput.com', so the construction of a page object never fails for
\* want of BASE_URL
C29_AsStated ==
  top.op = "new LoginPage" =>
    /\ res.err.text = "none"
    /\ res.ret = GetBaseUrl(settings)
    /\ BaseUrlVar \notin DOMAIN env => res.ret = DefaultBaseUrl

====
